---- MODULE Spec2Model ----
(***************************************************************************)
(* The headless lottery draw (runSimulation) and its batch evaluator       *)
(* (evaluateConfig), modelled from simulate.mjs / the optimizer script.    *)
(*                                                                         *)
(* The rigid-body engine is external.  What the code sees of it is: each   *)
(* Engine.update fires 'beforeUpdate' once and then reports a finite list  *)
(* of newly touching body pairs ('collisionStart').  The engine is         *)
(* modelled as reporting ANY list of pairs of bodies that are in the world *)
(* (both orders of bodyA/bodyB, no two bodies twice in one event), one     *)
(* pair per step of the handler's loop.                                    *)
(*                                                                         *)
(* JavaScript strings are sequences of one-character strings, so that      *)
(* label formatting (`ball-${i}`), startsWith, split and parseInt are      *)
(* computed, not assumed.  Non-integer numbers are exact rationals <<n,d>>.*)
(***************************************************************************)
EXTENDS Integers, Sequences, FiniteSets, TLC

(***************************************************************************)
(* Bounds of the model.                                                    *)
(***************************************************************************)
\* callers' numBalls range over 1..MaxBalls
MaxBalls == 2
\* the engine reports at most MaxPairs pairs in one collisionStart event
MaxPairs == 2
\* cap on ballBallCollisions + ballWallCollisions within one draw
MaxCollisions == 2
\* the selection time-out in ms (the literal 15000 of the source, scaled
\* down so that the selection loop has a small cap)
SelectionTimeoutMs == 30
\* numRuns passed to evaluateConfig ranges over 1..MaxRuns
MaxRuns == 2

(***************************************************************************)
(* JavaScript values.                                                      *)
(***************************************************************************)
\* null (and the empty string: both are falsy, and no label is empty)
Null == << >>
\* the result of parseInt on a string without leading digits
NaN == -999
\* a missing array element, as parseInt reads it (the string "undefined")
Undefined == << "undefined" >>

Falsy(v) == v = Null

DigitChars == <<"0", "1", "2", "3", "4", "5", "6", "7", "8", "9">>

IsDigit(c) == \E k \in 1..10 : DigitChars[k] = c

DigitValue(c) == (CHOOSE k \in 1..10 : DigitChars[k] = c) - 1

\* String(i) for a non-negative integer i
RECURSIVE NumberToString(_)
NumberToString(n) ==
    IF n < 10 THEN << DigitChars[n + 1] >>
    ELSE NumberToString(n \div 10) \o << DigitChars[(n % 10) + 1] >>

\* s.startsWith(prefix)
StartsWith(s, prefix) ==
    /\ Len(s) >= Len(prefix)
    /\ SubSeq(s, 1, Len(prefix)) = prefix

\* s.split(sep) for a one-character separator: the sequence of parts
RECURSIVE SplitFrom(_, _, _, _)
SplitFrom(s, sep, k, cur) ==
    IF k > Len(s) THEN << cur >>
    ELSE IF s[k] = sep THEN << cur >> \o SplitFrom(s, sep, k + 1, << >>)
    ELSE SplitFrom(s, sep, k + 1, Append(cur, s[k]))

Split(s, sep) == SplitFrom(s, sep, 1, << >>)

\* parts[k] with JavaScript's 0-based index; undefined past the end
ArrayGet(arr, k) == IF k + 1 \in 1..Len(arr) THEN arr[k + 1] ELSE Undefined

\* parseInt(s): the decimal value of the leading digits, NaN when none
RECURSIVE ParseDigits(_, _, _)
ParseDigits(s, k, acc) ==
    IF k > Len(s) \/ ~IsDigit(s[k]) THEN acc
    ELSE ParseDigits(s, k + 1, acc * 10 + DigitValue(s[k]))

ParseInt(s) ==
    IF Len(s) = 0 \/ ~IsDigit(s[1]) THEN NaN
    ELSE ParseDigits(s, 1, 0)

(***************************************************************************)
(* Exact rationals <<num, den>>, den > 0, in lowest terms; Infinity=<<1,0>>*)
(***************************************************************************)
RECURSIVE GCD(_, _)
GCD(a, b) == IF b = 0 THEN a ELSE GCD(b, a % b)

Abs(x) == IF x < 0 THEN -x ELSE x

Rat(n, d) ==
    LET g == GCD(Abs(n), Abs(d))
    IN  IF g = 0 THEN << 0, 1 >> ELSE << n \div g, d \div g >>

RatAdd(a, b) == Rat(a[1] * b[2] + b[1] * a[2], a[2] * b[2])

RatMul(a, b) == Rat(a[1] * b[1], a[2] * b[2])

Infinity == << 1, 0 >>

\* Math.round(n / d) for d > 0: the nearest integer, halves rounded up
MathRound(n, d) == (2 * n + d) \div (2 * d)

\* the number NaN among the rationals
RatNaN == << 0, 0 >>

RatSub(a, b) == Rat(a[1] * b[2] - b[1] * a[2], a[2] * b[2])

RatAbs(a) == << Abs(a[1]), a[2] >>

\* a < b, for a finite and b finite or Infinity
RatLess(a, b) == a[1] * b[2] < b[1] * a[2]

\* Math.max(a, b)
RatMax(a, b) == IF RatLess(a, b) THEN b ELSE a

\* a / b for b >= 0: x/0 is Infinity, -Infinity or, for x = 0, NaN;
\* Infinity/Infinity is NaN
RatDiv(a, b) ==
    IF a = RatNaN \/ b = RatNaN THEN RatNaN
    ELSE IF b[2] = 0 THEN (IF a[2] = 0 THEN RatNaN ELSE << 0, 1 >>)
    ELSE IF a[2] = 0 THEN a
    ELSE IF b[1] = 0 THEN (IF a[1] = 0 THEN RatNaN
                           ELSE IF a[1] > 0 THEN Infinity ELSE << -1, 0 >>)
    ELSE Rat(a[1] * b[2], a[2] * b[1])

(***************************************************************************)
(* Constants of simulate.mjs.                                              *)
(***************************************************************************)
\* DT = 1000 / 60 ms
DT == Rat(1000, 60)

LABEL_WALL == <<"w", "a", "l", "l">>
LABEL_GATE == <<"g", "a", "t", "e">>
LABEL_SENSOR == <<"e", "x", "i", "t", "-", "s", "e", "n", "s", "o", "r">>
BALL_PREFIX == <<"b", "a", "l", "l", "-">>

\* label: `ball-${i}`
BallLabel(i) == BALL_PREFIX \o NumberToString(i)

\* The knobs that are not integers are exact rationals.
DEFAULT_PARAMS ==
    [ gravityY |-> Rat(174, 100), gravityScale |-> Rat(45, 10000),
      numBalls |-> 8, ballRadius |-> 37,
      ballRestitution |-> Rat(84, 100), ballFriction |-> Rat(11, 100),
      ballFrictionAir |-> Rat(41, 1000), ballDensity |-> Rat(8, 10000),
      wallFriction |-> Rat(42, 100), wallRestitution |-> Rat(84, 100),
      windForceX |-> Rat(14, 1000), windForceY |-> Rat(6, 1000),
      windMaxDistScale |-> Rat(36, 100), windSourceAngle |-> Rat(6, 10),
      windOscFreq |-> Rat(0, 10), windOscAmp |-> Rat(0, 10),
      chaosX |-> Rat(6, 1000), chaosY |-> Rat(4, 1000),
      angularNudgeMag |-> Rat(64, 100), angularNudgeChance |-> Rat(33, 100),
      mixTime |-> 5000 ]

\* the spread with its operands swapped: defaults override the caller
MergeSwapped(defaults, params) ==
    [ k \in (DOMAIN defaults) \cup (DOMAIN params) |->
        IF k \in DOMAIN defaults THEN defaults[k] ELSE params[k] ]

\* { ...defaults, ...params }: a later spread overrides an earlier one
Merge(defaults, params) ==
    [ k \in (DOMAIN defaults) \cup (DOMAIN params) |->
        IF k \in DOMAIN params THEN params[k] ELSE defaults[k] ]

(***************************************************************************)
(* The Params records the callers pass: complete records (every key of     *)
(* DEFAULT_PARAMS), as generateRandomParams and DEFAULT_PARAMS are, with   *)
(* numBalls and mixTime drawn from the bounded ranges.                     *)
(***************************************************************************)
\* mixTime in ms: 0 and 8 give no mixing step (8/dt = 0.48), 25 gives two
\* (25/dt = 1.5, rounded up)
MixTimeChoices == { 0, 8, 25 }

CallerParams ==
    { [ DEFAULT_PARAMS EXCEPT !.numBalls = n, !.mixTime = t ] :
        n \in 1..MaxBalls, t \in MixTimeChoices }

(***************************************************************************)
(* runSimulation: the state of one draw.                                   *)
(*   pc            Mixing / Selecting / Finished (position in the function)*)
(*   inUpdate      inside an Engine.update call (its handlers are running) *)
(*   p             the merged Params                                       *)
(*   world         labels of the bodies in engine.world                    *)
(*   winner, ballBallCollisions, ballWallCollisions, simStep,              *)
(*   mixSteps, postGateMaxSteps, selectionSteps: the locals of that name   *)
(*   mixI, selI    the loop variables i of the two loops                   *)
(*   pairIdx, pair number of pairs of the current event handled so far,    *)
(*                 and the pair handled last                               *)
(*   reported      the pairs of bodies (wall segments apart, which share   *)
(*                 one label) already reported in the current event        *)
(*   winnerStep    simStep at the moment winner was assigned (0: never)    *)
(*   result        the returned SimulationResult                           *)
(***************************************************************************)
\* sim: one runSimulation call;  ev: one evaluateConfig call;
\* mg: the entry of runSimulation (default argument and merge);
\* iso: two runSimulation calls side by side;  opt: the optimizer script;
\* gen: one generateRandomParams call
\* wind: one draw with its wind handler;  jet: one jet-strength computation;
\* geo: two constructions of the world;  link: one shareable-link round
\* trip;  app: the App component;  lm: the LotteryMachine component
VARIABLES sim, ev, mg, iso, opt, gen, wind, jet, geo, link, app, lm

vars == << sim, ev, mg, iso, opt, gen, wind, jet, geo, link, app, lm >>

\* a component no call of which is under way
Idle == [ pc |-> "idle" ]

\* the variables other than sim, and other than ev
ExceptSim == << ev, mg, iso, opt, gen, wind, jet, geo, link, app, lm >>
ExceptEval == << sim, mg, iso, opt, gen, wind, jet, geo, link, app, lm >>

NoPair == << >>

NoResult == [ returned |-> FALSE ]

\* labels of the balls array: ball-0 .. ball-(numBalls-1)
Balls(p) == { BallLabel(i) : i \in 0..(p.numBalls - 1) }

\* the bodies added to engine.world before the first step
BuildWorldNoGate(p) == { LABEL_WALL, LABEL_SENSOR } \cup Balls(p)

BuildWorld(p) == { LABEL_WALL, LABEL_GATE, LABEL_SENSOR } \cup Balls(p)

\* const postGateMaxSteps = Math.round(15000 / DT)
PostGateMaxSteps == MathRound(SelectionTimeoutMs * DT[2], DT[1])

\* the state of runSimulation when it reaches the mixing loop
SimStart(params) ==
    LET p == Merge(DEFAULT_PARAMS, params)
    IN  [ pc |-> "Mixing", inUpdate |-> FALSE, p |-> p,
          world |-> BuildWorld(p),
          winner |-> Null, ballBallCollisions |-> 0, ballWallCollisions |-> 0,
          simStep |-> 0,
          mixSteps |-> MathRound(p.mixTime * DT[2], DT[1]),
          postGateMaxSteps |-> PostGateMaxSteps,
          mixI |-> 0, selI |-> 0, selectionSteps |-> 0,
          pairIdx |-> 0, pair |-> NoPair, reported |-> {}, winnerStep |-> 0,
          result |-> NoResult ]

\* the pairs the engine can report: two bodies of the world, in either
\* order (the wall label stands for every wall segment, so wall-wall too)
PairsOf(world) ==
    { pr \in world \X world : pr[1] # pr[2] \/ pr[1] = LABEL_WALL }

\* the two bodies of a pair, when neither is a wall segment
BodiesOf(pr) == IF LABEL_WALL \in { pr[1], pr[2] } THEN {} ELSE { pr[1], pr[2] }

\* the handler without the `!winner` test: every sensor touch re-records
CollisionStartOverwrite(d, pr) ==
    LET bodyA == pr[1]
        bodyB == pr[2]
        sensorBody == IF bodyA = LABEL_SENSOR THEN bodyA
                      ELSE IF bodyB = LABEL_SENSOR THEN bodyB ELSE Null
        ballBody == IF sensorBody = bodyA THEN bodyB ELSE bodyA
        aIsBall == StartsWith(bodyA, BALL_PREFIX)
        bIsBall == StartsWith(bodyB, BALL_PREFIX)
    IN  IF sensorBody # Null
        THEN IF StartsWith(ballBody, BALL_PREFIX)
             THEN [ d EXCEPT !.winner = ballBody ]
             ELSE d
        ELSE IF aIsBall /\ bIsBall
             THEN [ d EXCEPT !.ballBallCollisions = @ + 1 ]
        ELSE IF aIsBall \/ bIsBall
             THEN [ d EXCEPT !.ballWallCollisions = @ + 1 ]
        ELSE d

\* the handler with the two counters exchanged
CollisionStartSwapped(d, pr) ==
    LET bodyA == pr[1]
        bodyB == pr[2]
        sensorBody == IF bodyA = LABEL_SENSOR THEN bodyA
                      ELSE IF bodyB = LABEL_SENSOR THEN bodyB ELSE Null
        ballBody == IF sensorBody = bodyA THEN bodyB ELSE bodyA
        aIsBall == StartsWith(bodyA, BALL_PREFIX)
        bIsBall == StartsWith(bodyB, BALL_PREFIX)
    IN  IF Falsy(d.winner) /\ sensorBody # Null
        THEN IF StartsWith(ballBody, BALL_PREFIX)
             THEN [ d EXCEPT !.winner = ballBody ]
             ELSE d
        ELSE IF aIsBall /\ bIsBall
             THEN [ d EXCEPT !.ballWallCollisions = @ + 1 ]
        ELSE IF aIsBall \/ bIsBall
             THEN [ d EXCEPT !.ballBallCollisions = @ + 1 ]
        ELSE d

\* the body of `for (const pair of event.pairs)` for one pair
CollisionStart(d, pr) ==
    LET bodyA == pr[1]
        bodyB == pr[2]
        sensorBody == IF bodyA = LABEL_SENSOR THEN bodyA
                      ELSE IF bodyB = LABEL_SENSOR THEN bodyB ELSE Null
        ballBody == IF sensorBody = bodyA THEN bodyB ELSE bodyA
        aIsBall == StartsWith(bodyA, BALL_PREFIX)
        bIsBall == StartsWith(bodyB, BALL_PREFIX)
    IN  IF Falsy(d.winner) /\ sensorBody # Null
        THEN \* if (ballBody.label.startsWith('ball-')) winner = ...; continue
             IF StartsWith(ballBody, BALL_PREFIX)
             THEN [ d EXCEPT !.winner = ballBody ]
             ELSE d
        ELSE IF aIsBall /\ bIsBall
             THEN [ d EXCEPT !.ballBallCollisions = @ + 1 ]
        ELSE IF aIsBall \/ bIsBall
             THEN [ d EXCEPT !.ballWallCollisions = @ + 1 ]
        ELSE d

\* Engine.update entered: 'beforeUpdate' fires once (simStep++)
BeforeUpdate(d) ==
    [ d EXCEPT !.inUpdate = TRUE, !.simStep = @ + 1,
               !.pairIdx = 0, !.pair = NoPair, !.reported = {} ]

\* i < mixSteps (the loop test without `&& !winner`)
MixContinuesIgnoringWinner(d) == d.mixI < d.mixSteps

\* i < mixSteps && !winner
MixContinues(d) == d.mixI < d.mixSteps /\ Falsy(d.winner)

\* i <= postGateMaxSteps && !winner (the cap off by one)
SelectContinuesOffByOne(d) == d.selI <= d.postGateMaxSteps /\ Falsy(d.winner)

\* i < postGateMaxSteps && !winner
SelectContinues(d) == d.selI < d.postGateMaxSteps /\ Falsy(d.winner)

\* the return statement: the SimulationResult built from the locals
ResultOneBased(d) ==
    [ returned |-> TRUE,
      winner |-> d.winner,
      winnerIndex |-> IF ~Falsy(d.winner)
                      THEN ParseInt(ArrayGet(Split(d.winner, "-"), 1)) + 1
                      ELSE -1,
      totalCollisions |-> d.ballBallCollisions + d.ballWallCollisions,
      ballBallCollisions |-> d.ballBallCollisions,
      ballWallCollisions |-> d.ballWallCollisions,
      selectionTimeMs |-> RatMul(Rat(d.selectionSteps, 1), DT),
      params |-> d.p ]

Result(d) ==
    [ returned |-> TRUE,
      winner |-> d.winner,
      \* winner ? parseInt(winner.split('-')[1]) : -1
      winnerIndex |-> IF ~Falsy(d.winner)
                      THEN ParseInt(ArrayGet(Split(d.winner, "-"), 1))
                      ELSE -1,
      totalCollisions |-> d.ballBallCollisions + d.ballWallCollisions,
      ballBallCollisions |-> d.ballBallCollisions,
      ballWallCollisions |-> d.ballWallCollisions,
      selectionTimeMs |-> RatMul(Rat(d.selectionSteps, 1), DT),
      params |-> d.p ]

\* Engine.update returns to the selection loop without selectionSteps++
UpdateReturnNoCount(d) ==
    IF d.pc = "Mixing"
    THEN [ d EXCEPT !.inUpdate = FALSE, !.mixI = @ + 1 ]
    ELSE [ d EXCEPT !.inUpdate = FALSE, !.selI = @ + 1 ]

\* Engine.update returns: the loop body ends and the loop variable advances
UpdateReturn(d) ==
    IF d.pc = "Mixing"
    THEN [ d EXCEPT !.inUpdate = FALSE, !.mixI = @ + 1 ]
    ELSE [ d EXCEPT !.inUpdate = FALSE, !.selI = @ + 1,
                    !.selectionSteps = @ + 1 ]

(***************************************************************************)
(* The steps of one draw, each as the set of states it can lead to from d  *)
(* (empty when the step is not enabled in d).                              *)
(***************************************************************************)
\* mixing loop: Engine.update(engine, DT) is called
MixStepOf(d) ==
    IF d.pc = "Mixing" /\ ~d.inUpdate /\ MixContinues(d)
    THEN { BeforeUpdate(d) } ELSE {}

\* the engine reports one more pair of this step's collisionStart event
CollisionOf(d) ==
    IF d.pc \in {"Mixing", "Selecting"} /\ d.inUpdate /\ d.pairIdx < MaxPairs
    THEN { e \in { [ CollisionStart(d, pr) EXCEPT
                          !.pairIdx = @ + 1, !.pair = pr,
                          !.reported = @ \cup ({ BodiesOf(pr) } \ { {} }),
                          !.winnerStep =
                             IF Falsy(d.winner) /\ ~Falsy(CollisionStart(d, pr).winner)
                             THEN d.simStep ELSE @ ] :
                      pr \in { q \in PairsOf(d.world) :
                                  BodiesOf(q) \notin d.reported } } :
             e.ballBallCollisions + e.ballWallCollisions <= MaxCollisions }
    ELSE {}

\* the event has no more pairs: Engine.update returns
UpdateReturnOf(d) ==
    IF d.pc \in {"Mixing", "Selecting"} /\ d.inUpdate
    THEN { UpdateReturn(d) } ELSE {}

\* the mixing loop has ended: World.remove(engine.world, [gate])
OpenGateOf(d) ==
    IF d.pc = "Mixing" /\ ~d.inUpdate /\ ~MixContinues(d)
    THEN { [ d EXCEPT !.pc = "Selecting", !.world = @ \ { LABEL_GATE },
                      !.selI = 0, !.selectionSteps = 0 ] }
    ELSE {}

\* selection loop: Engine.update(engine, DT) is called
SelectStepOf(d) ==
    IF d.pc = "Selecting" /\ ~d.inUpdate /\ SelectContinues(d)
    THEN { BeforeUpdate(d) } ELSE {}

\* the selection loop has ended: handlers off, world cleared, result returned
FinishOf(d) ==
    IF d.pc = "Selecting" /\ ~d.inUpdate /\ ~SelectContinues(d)
    THEN { [ d EXCEPT !.pc = "Finished", !.world = {}, !.result = Result(d) ] }
    ELSE {}

SimNextOf(d) ==
    MixStepOf(d) \cup CollisionOf(d) \cup UpdateReturnOf(d)
        \cup OpenGateOf(d) \cup SelectStepOf(d) \cup FinishOf(d)

(***************************************************************************)
(* runSimulation as one call.  The result depends on the pairs reported,   *)
(* not on the bookkeeping of the steps above, so the call is computed over *)
(* states with that bookkeeping forgotten: Engine.update as a whole (the   *)
(* handler run on every list of pairs the engine can report), then the two *)
(* loops around it.                                                        *)
(***************************************************************************)
\* d without the record of the pair handled last
ForgetPair(d) == [ d EXCEPT !.pair = NoPair, !.winnerStep = 0 ]

\* d between two Engine.update calls, without the record of the last event
ForgetEvent(d) == [ d EXCEPT !.pair = NoPair, !.pairIdx = 0, !.reported = {},
                             !.winnerStep = 0 ]

\* the states the handler can be in during one event, from those of S on
RECURSIVE EventStates(_)
EventStates(S) ==
    IF S = {} THEN {}
    ELSE S \cup EventStates({ ForgetPair(e) : e \in UNION { CollisionOf(d) : d \in S } })

\* Engine.update(engine, DT) as a whole call, entered in state b
EngineUpdate(b) ==
    { ForgetEvent(r) : r \in UNION { UpdateReturnOf(e) : e \in EventStates({ b }) } }

\* one loop iteration, or the step that ends a loop
DrawStepOf(d) ==
    (UNION { EngineUpdate(b) : b \in MixStepOf(d) \cup SelectStepOf(d) })
        \cup OpenGateOf(d) \cup FinishOf(d)

\* the results of the draws that pass through a state of `frontier`
RECURSIVE ResultsFrom(_)
ResultsFrom(frontier) ==
    IF frontier = {} THEN {}
    ELSE { d.result : d \in { r \in frontier : r.pc = "Finished" } }
             \cup ResultsFrom(UNION { DrawStepOf(d) : d \in frontier })

\* runSimulation(params) as a whole call: the results it can return
RunSimulation(params) == ResultsFrom({ SimStart(params) })

SimulationResults == [ params \in CallerParams |-> RunSimulation(params) ]

(***************************************************************************)
(* evaluateConfig(params, numRuns): the state of one evaluation.           *)
(*   pc  loop / done;  params, numRuns: the arguments;  i: the loop        *)
(*   variable;  winCounts, successfulRuns, totalCollisions,                *)
(*   totalSelectionTime: the locals of that name;  result: the result of   *)
(*   the last runSimulation call;  evaluation: the returned record         *)
(***************************************************************************)
\* new Array(params.numBalls).fill(0)
NewArrayFill0PlusOne(params) ==
    IF "numBalls" \in DOMAIN params
    THEN [ k \in 1..(params.numBalls + 1) |-> 0 ]
    ELSE << 0 >>

NewArrayFill0(params) ==
    IF "numBalls" \in DOMAIN params
    THEN [ k \in 1..params.numBalls |-> 0 ]
    ELSE << 0 >>

\* arr[idx]++ counting a win twice
ArrayIncrementTwice(arr, idx) ==
    IF idx + 1 <= Len(arr)
    THEN [ arr EXCEPT ![idx + 1] = IF @ = NaN THEN NaN ELSE @ + 2 ]
    ELSE arr \o [ k \in 1..(idx + 1 - Len(arr)) |-> NaN ]

\* arr[idx]++ : an index past the end extends the array, the new element
\* (undefined + 1) and the holes before it read as NaN
ArrayIncrement(arr, idx) ==
    IF idx + 1 <= Len(arr)
    THEN [ arr EXCEPT ![idx + 1] = IF @ = NaN THEN NaN ELSE @ + 1 ]
    ELSE arr \o [ k \in 1..(idx + 1 - Len(arr)) |-> NaN ]

NoEvaluation == [ returned |-> FALSE ]

EvaluateStart(params, numRuns) ==
    [ pc |-> "loop", params |-> params, numRuns |-> numRuns, i |-> 0,
      winCounts |-> NewArrayFill0(params),
      successfulRuns |-> 0, totalCollisions |-> 0,
      totalSelectionTime |-> Rat(0, 1),
      result |-> NoResult, evaluation |-> NoEvaluation ]

\* the loop body with the `winnerIndex >= 0` test dropped for successfulRuns
AccumulateAlways(e, result) ==
    LET c == [ e EXCEPT !.result = result, !.i = @ + 1,
                        !.totalCollisions = @ + result.totalCollisions,
                        !.successfulRuns = @ + 1 ]
    IN  IF result.winnerIndex >= 0
        THEN [ c EXCEPT !.winCounts = ArrayIncrement(@, result.winnerIndex),
                        !.totalSelectionTime = RatAdd(@, result.selectionTimeMs) ]
        ELSE c

\* the loop body after runSimulation has returned `result`
Accumulate(e, result) ==
    LET c == [ e EXCEPT !.result = result, !.i = @ + 1,
                        !.totalCollisions = @ + result.totalCollisions ]
    IN  IF result.winnerIndex >= 0
        THEN [ c EXCEPT !.winCounts = ArrayIncrement(@, result.winnerIndex),
                        !.successfulRuns = @ + 1,
                        !.totalSelectionTime = RatAdd(@, result.selectionTimeMs) ]
        ELSE c

\* const expected = successfulRuns / params.numBalls
ExpectedOf(e) == Rat(e.successfulRuns, e.params.numBalls)

\* the loop `chiSquared += (count - expected) ** 2 / Math.max(expected, 0.001)`
RECURSIVE ChiSum(_, _)
ChiSum(counts, expected) ==
    IF counts = << >> THEN << 0, 1 >>
    ELSE LET diff == RatSub(<< Head(counts), 1 >>, expected)
         IN  RatAdd(RatDiv(RatMul(diff, diff), RatMax(expected, Rat(1, 1000))),
                    ChiSum(Tail(counts), expected))

\* chiSquared with 0 as its initial value in place of Infinity
ChiSquaredOfFromZero(e) ==
    IF e.successfulRuns > 0 THEN ChiSum(e.winCounts, ExpectedOf(e)) ELSE << 0, 1 >>

\* let chiSquared = Infinity; if (successfulRuns > 0) { ... }
ChiSquaredOf(e) ==
    IF e.successfulRuns > 0 THEN ChiSum(e.winCounts, ExpectedOf(e)) ELSE Infinity

\* chiSquared / Math.max(params.numBalls - 1, 1)
ChiSquaredNormOf(e) ==
    RatDiv(ChiSquaredOf(e),
           << IF e.params.numBalls - 1 > 1 THEN e.params.numBalls - 1 ELSE 1, 1 >>)

\* Math.max(...winCounts.map(c => Math.abs(c - expected) / expected)):
\* Math.max of no arguments is -Infinity
RECURSIVE MaxDev(_, _)
MaxDev(counts, expected) ==
    IF counts = << >> THEN << -1, 0 >>
    ELSE RatMax(RatDiv(RatAbs(RatSub(<< Head(counts), 1 >>, expected)), expected),
                MaxDev(Tail(counts), expected))

\* the deviation measured against the number of runs, not the expectation
MaxDeviationOfRuns(e) ==
    IF e.successfulRuns > 0 THEN MaxDev(e.winCounts, << e.numRuns, 1 >>) ELSE Infinity

\* let maxDeviation = Infinity; if (successfulRuns > 0) { ... }
MaxDeviationOf(e) ==
    IF e.successfulRuns > 0 THEN MaxDev(e.winCounts, ExpectedOf(e)) ELSE Infinity

\* a score is kept exact as lin + 0.3 * ln(logArg), lin and logArg rational;
\* it is the number 0 only as Score(0, 1)
Score(lin, logArg) == [ lin |-> lin, logArg |-> logArg ]

ZeroScore == Score(<< 0, 1 >>, << 1, 1 >>)

\* successRate * 100 - chiSquaredNorm * 5 + Math.log(avgCollisions + 1) * 0.3
ScoreFormula(e) ==
    Score(RatSub(RatMul(Rat(e.successfulRuns, e.numRuns), << 100, 1 >>),
                 RatMul(ChiSquaredNormOf(e), << 5, 1 >>)),
          RatAdd(Rat(e.totalCollisions, e.numRuns), << 1, 1 >>))

\* the score without the `successRate > 0` test
ScoreOfUnguarded(e) == ScoreFormula(e)

\* let score = 0; if (successRate > 0) { score = ... }
ScoreOf(e) ==
    IF RatLess(<< 0, 1 >>, Rat(e.successfulRuns, e.numRuns)) THEN ScoreFormula(e)
    ELSE ZeroScore

\* the statistics computed after the loop, and the returned record
Evaluation(e) ==
    [ returned |-> TRUE,
      params |-> e.params,
      successRate |-> Rat(e.successfulRuns, e.numRuns),
      avgCollisions |-> Rat(e.totalCollisions, e.numRuns),
      avgSelectionTime |->
          IF e.successfulRuns > 0
          THEN RatMul(e.totalSelectionTime, << 1, e.successfulRuns >>)
          ELSE Infinity,
      chiSquared |-> ChiSquaredOf(e),
      chiSquaredNorm |-> ChiSquaredNormOf(e),
      maxDeviation |-> MaxDeviationOf(e),
      winCounts |-> e.winCounts,
      score |-> ScoreOf(e),
      numRuns |-> e.numRuns ]

\* one iteration of the loop: a whole runSimulation call and the tallying
EvalRunOf(e) ==
    IF e.pc = "loop" /\ e.i < e.numRuns
    THEN { Accumulate(e, r) : r \in SimulationResults[e.params] }
    ELSE {}

\* the loop has ended: the statistics are computed and returned
EvalFinishOf(e) ==
    IF e.pc = "loop" /\ ~(e.i < e.numRuns)
    THEN { [ e EXCEPT !.pc = "done", !.evaluation = Evaluation(e) ] }
    ELSE {}

(***************************************************************************)
(* Spec: one runSimulation call, step by step.                             *)
(***************************************************************************)
IdleSim == [ pc |-> "idle" ]

IdleEval == [ pc |-> "idle" ]

Init ==
    /\ sim \in { SimStart(params) : params \in CallerParams }
    /\ ev = IdleEval
    /\ mg = Idle /\ iso = Idle /\ opt = Idle /\ gen = Idle
    /\ wind = Idle /\ jet = Idle /\ geo = Idle
    /\ link = Idle /\ app = Idle /\ lm = Idle

MixStep == sim' \in MixStepOf(sim) /\ UNCHANGED ExceptSim

Collision == sim' \in CollisionOf(sim) /\ UNCHANGED ExceptSim

UpdateReturns == sim' \in UpdateReturnOf(sim) /\ UNCHANGED ExceptSim

OpenGate == sim' \in OpenGateOf(sim) /\ UNCHANGED ExceptSim

SelectStep == sim' \in SelectStepOf(sim) /\ UNCHANGED ExceptSim

Finish == sim' \in FinishOf(sim) /\ UNCHANGED ExceptSim

Next ==
    \/ MixStep
    \/ Collision
    \/ UpdateReturns
    \/ OpenGate
    \/ SelectStep
    \/ Finish

Spec == Init /\ [][Next]_vars

\* runSimulation is straight-line synchronous code: it keeps executing
SpecLive == Spec /\ WF_vars(Next)

(***************************************************************************)
(* SpecEval: one evaluateConfig call, one loop iteration per step.         *)
(***************************************************************************)
InitEval ==
    /\ sim = IdleSim
    /\ ev \in { EvaluateStart(params, n) :
                  params \in CallerParams, n \in 1..MaxRuns }
    /\ mg = Idle /\ iso = Idle /\ opt = Idle /\ gen = Idle
    /\ wind = Idle /\ jet = Idle /\ geo = Idle
    /\ link = Idle /\ app = Idle /\ lm = Idle

EvalRun == ev' \in EvalRunOf(ev) /\ UNCHANGED ExceptEval

EvalFinish == ev' \in EvalFinishOf(ev) /\ UNCHANGED ExceptEval

NextEval ==
    \/ EvalRun
    \/ EvalFinish

SpecEval == InitEval /\ [][NextEval]_vars

(***************************************************************************)
(* Claims about one draw.                                                  *)
(***************************************************************************)
IsBall(label) == label \in Balls(sim.p)

\* the ball of a ball-sensor pair, Null for every other pair
SensorBallOf(pr) ==
    IF pr[1] = LABEL_SENSOR /\ IsBall(pr[2]) THEN pr[2]
    ELSE IF pr[2] = LABEL_SENSOR /\ IsBall(pr[1]) THEN pr[1]
    ELSE Null

InvolvesSensor(pr) == pr[1] = LABEL_SENSOR \/ pr[2] = LABEL_SENSOR

\* this step is the handling of one reported pair, sim'.pair
PairHandled == sim'.pairIdx = sim.pairIdx + 1

\* C1: every draw reaches Finished, and the number of engine steps it has
\* executed never exceeds mixSteps + postGateMaxSteps, where mixSteps is
\* mixTime/dt rounded to the nearest integer and postGateMaxSteps is the
\* selection time-out divided by dt, rounded; whatever pairs are reported.
C1_Terminates ==
    /\ <>(sim.pc = "Finished")
    /\ [](/\ sim.simStep <= sim.mixSteps + sim.postGateMaxSteps
          /\ 2 * Abs(sim.mixSteps * 1000 - sim.p.mixTime * 60) <= 1000
          /\ 2 * Abs(sim.postGateMaxSteps * 1000 - SelectionTimeoutMs * 60) <= 1000)

\* C1 witness: a finished draw that used every step of both loops, with
\* collisions counted on the way
C1_Witness ==
    /\ sim.pc = "Finished"
    /\ sim.mixSteps > 0
    /\ sim.simStep = sim.mixSteps + sim.postGateMaxSteps
    /\ sim.ballBallCollisions + sim.ballWallCollisions > 0

\* C2: in every SimulationResult winnerIndex is -1 or an index in
\* [0, numBalls); it is -1 exactly when winner is none; and when winner is
\* the label ball-<i>, winnerIndex is i.
C2_WinnerIndex ==
    sim.pc = "Finished" =>
        LET r == sim.result
            n == sim.p.numBalls
        IN  /\ r.winnerIndex = -1 \/ r.winnerIndex \in 0..(n - 1)
            /\ (r.winnerIndex = -1) <=> (r.winner = Null)
            /\ \A i \in 0..(n - 1) : r.winner = BallLabel(i) => r.winnerIndex = i

\* C2 witness: a result whose winner is the ball with index 1
C2_Witness ==
    /\ sim.pc = "Finished"
    /\ sim.result.winner = BallLabel(1)
    /\ sim.result.winnerIndex = 1

\* C3: the winner is recorded at most once in a draw: while no winner is
\* recorded, handling a pair records the ball of that pair if it is a
\* ball-sensor pair and nothing otherwise (so the first ball-sensor pair in
\* report order wins); once recorded, no step changes the winner.
C3_FirstSensorTouchWins ==
    [][ /\ sim.winner # Null => sim'.winner = sim.winner
        /\ sim.winner = Null /\ PairHandled
              => sim'.winner = SensorBallOf(sim'.pair)
        /\ sim.winner = Null /\ ~PairHandled => sim'.winner = Null ]_vars

\* C3 witness: a winner is recorded and the pair handled last is a sensor
\* touch by another ball, which was ignored
C3_Witness ==
    /\ sim.winner # Null
    /\ sim.pair # NoPair
    /\ SensorBallOf(sim.pair) # Null
    /\ SensorBallOf(sim.pair) # sim.winner

\* C4 (as claimed): handling a pair that involves the exit sensor never
\* changes the ball-wall counter nor the ball-ball counter, before and
\* after a winner is recorded.
C4_SensorPairsNeverCounted ==
    [][ PairHandled /\ InvolvesSensor(sim'.pair)
          => /\ sim'.ballWallCollisions = sim.ballWallCollisions
             /\ sim'.ballBallCollisions = sim.ballBallCollisions ]_vars

\* C5: handling a pair that does not involve the sensor adds one to the
\* ball-ball counter when both bodies are balls, one to the ball-wall
\* counter when exactly one is, and changes no counter when neither is;
\* the other counter is unchanged in each case.
C5_Classification ==
    [][ PairHandled /\ ~InvolvesSensor(sim'.pair)
          => LET a == IsBall(sim'.pair[1])
                 b == IsBall(sim'.pair[2])
                 dBB == sim'.ballBallCollisions - sim.ballBallCollisions
                 dBW == sim'.ballWallCollisions - sim.ballWallCollisions
             IN  /\ a /\ b => dBB = 1 /\ dBW = 0
                 /\ (a /\ ~b) \/ (~a /\ b) => dBB = 0 /\ dBW = 1
                 /\ ~a /\ ~b => dBB = 0 /\ dBW = 0 ]_vars

\* C5 witness: both counters have counted, a winner is recorded, and the
\* pair handled last is a pair of two walls (neither body a ball)
C5_Witness ==
    /\ sim.pc \in {"Mixing", "Selecting"}
    /\ sim.ballBallCollisions > 0
    /\ sim.ballWallCollisions > 0
    /\ sim.pair = << LABEL_WALL, LABEL_WALL >>

\* Mixing < Selecting < Finished
PhaseRank(pc) == IF pc = "Mixing" THEN 0 ELSE IF pc = "Selecting" THEN 1 ELSE 2

GateInWorld(d) == LABEL_GATE \in d.world

\* C6: a draw starts in Mixing with the gate in the world; its phase only
\* moves forward through Mixing, Selecting, Finished; the gate is in the
\* world in every state of Mixing and in no state of Selecting or Finished;
\* it leaves the world in exactly one kind of step, the one from Mixing to
\* Selecting, which executes no engine step; once out it is never back.
C6_PhasesAndGate ==
    /\ sim.pc = "Mixing" /\ GateInWorld(sim)
    /\ [](sim.pc = "Mixing" => GateInWorld(sim))
    /\ [](sim.pc \in {"Selecting", "Finished"} => ~GateInWorld(sim))
    /\ [][ /\ PhaseRank(sim.pc) <= PhaseRank(sim'.pc)
           /\ PhaseRank(sim'.pc) <= PhaseRank(sim.pc) + 1
           /\ ~GateInWorld(sim) => ~GateInWorld(sim')
           /\ GateInWorld(sim) /\ ~GateInWorld(sim')
                 => /\ sim.pc = "Mixing" /\ sim'.pc = "Selecting"
                    /\ sim'.simStep = sim.simStep
                    /\ sim'.selectionSteps = 0 ]_vars

\* C6 witness: a finished draw that executed steps in both phases
C6_Witness ==
    /\ sim.pc = "Finished"
    /\ sim.mixI > 0
    /\ sim.selectionSteps > 0
    /\ ~GateInWorld(sim)

\* the winner was recorded in a step of the mixing loop
WinnerInMixing(d) == d.winnerStep # 0 /\ d.winnerStep <= d.mixSteps /\
                     d.winnerStep <= d.mixI + (IF d.pc = "Mixing" /\ d.inUpdate THEN 1 ELSE 0)

\* C7: in Selecting, an engine step runs only while no winner is recorded
\* (a recorded winner was recorded in the step under way, or in mixing); at
\* most postGateMaxSteps = round(timeout / dt) steps run; selectionSteps is
\* the number of selection steps completed; the result's selectionTimeMs is
\* selectionSteps * dt (dt = 1000/60); and a result without winner has
\* executed exactly postGateMaxSteps selection steps.
C7_Selection ==
    /\ sim.pc = "Selecting" /\ sim.inUpdate /\ sim.winner # Null
          => sim.winnerStep = sim.simStep
    /\ sim.pc \in {"Selecting", "Finished"}
          => /\ sim.selectionSteps <= sim.postGateMaxSteps
             /\ 2 * Abs(sim.postGateMaxSteps * 1000 - SelectionTimeoutMs * 60) <= 1000
             /\ sim.selectionSteps
                   = sim.simStep - sim.mixI - (IF sim.inUpdate THEN 1 ELSE 0)
    /\ sim.pc = "Finished"
          => /\ sim.result.selectionTimeMs[1] * 60
                   = sim.selectionSteps * 1000 * sim.result.selectionTimeMs[2]
             /\ sim.result.selectionTimeMs[2] > 0
             /\ sim.result.winner = Null
                   => sim.selectionSteps = sim.postGateMaxSteps
             /\ sim.winner # Null /\ ~WinnerInMixing(sim)
                   => sim.winnerStep = sim.simStep

\* C7 witness: selection stopped before the cap because a winner was
\* recorded in a selection step
C7_Witness ==
    /\ sim.pc = "Finished"
    /\ sim.result.winner # Null
    /\ ~WinnerInMixing(sim)
    /\ sim.selectionSteps > 0
    /\ sim.selectionSteps < sim.postGateMaxSteps

\* C8: after Mixing, if no winner was recorded in a mixing step then exactly
\* mixSteps = round(mixTime / dt) mixing steps were executed; if one was,
\* mixing stopped with that step, the gate is removed all the same, no
\* selection step is executed, and the result has selectionTimeMs = 0 and
\* that winner.
C8_Mixing ==
    /\ 2 * Abs(sim.mixSteps * 1000 - sim.p.mixTime * 60) <= 1000
    /\ sim.pc = "Mixing" /\ ~sim.inUpdate /\ WinnerInMixing(sim)
          => sim.mixI = sim.winnerStep
    /\ sim.pc \in {"Selecting", "Finished"} /\ ~WinnerInMixing(sim)
          => sim.mixI = sim.mixSteps
    /\ sim.pc \in {"Selecting", "Finished"} /\ WinnerInMixing(sim)
          => /\ sim.mixI = sim.winnerStep
             /\ sim.simStep = sim.mixI
             /\ ~GateInWorld(sim)
             /\ sim.selectionSteps = 0
             /\ ~sim.inUpdate
    /\ sim.pc = "Finished" /\ WinnerInMixing(sim)
          => /\ sim.result.selectionTimeMs = << 0, 1 >>
             /\ sim.result.winner = sim.winner
             /\ sim.result.winner # Null

\* C8 witness: a finished draw whose winner was recorded in a mixing step
\* that was not the last one of the mixing time
C8_Witness ==
    /\ sim.pc = "Finished"
    /\ WinnerInMixing(sim)
    /\ sim.mixI < sim.mixSteps

(***************************************************************************)
(* Claims about evaluateConfig.                                            *)
(***************************************************************************)
RECURSIVE SumSeq(_)
SumSeq(q) == IF q = << >> THEN 0 ELSE q[1] + SumSeq(Tail(q))

\* this step is one loop iteration whose draw timed out
TimedOutRun == ev'.i = ev.i + 1 /\ ev'.result.winnerIndex = -1

\* C9: a loop iteration whose draw timed out (winnerIndex = -1) leaves
\* winCounts, successfulRuns and totalSelectionTime unchanged and adds the
\* draw's totalCollisions to the collision total; it counts as a run, and
\* the returned successRate and avgCollisions are successfulRuns and
\* totalCollisions divided by the number of all runs, numRuns.
C9_TimeoutIsNormal ==
    /\ [][ TimedOutRun
             => /\ ev'.winCounts = ev.winCounts
                /\ ev'.successfulRuns = ev.successfulRuns
                /\ ev'.totalSelectionTime = ev.totalSelectionTime
                /\ ev'.totalCollisions
                      = ev.totalCollisions + ev'.result.totalCollisions
                /\ ev'.pc = "loop" ]_vars
    /\ [](ev.pc = "done"
             => /\ ev.i = ev.numRuns
                /\ ev.evaluation.successRate[1] * ev.i
                      = ev.successfulRuns * ev.evaluation.successRate[2]
                /\ ev.evaluation.avgCollisions[1] * ev.i
                      = ev.totalCollisions * ev.evaluation.avgCollisions[2]
                /\ ev.evaluation.successRate[2] > 0
                /\ ev.evaluation.avgCollisions[2] > 0)

\* C9 witness: an evaluation of two runs has returned; one run had a
\* winner, the last one timed out after counting collisions
C9_Witness ==
    /\ ev.pc = "done"
    /\ ev.i = 2
    /\ ev.successfulRuns = 1
    /\ ev.result.winnerIndex = -1
    /\ ev.result.totalCollisions > 0
    /\ ev.totalCollisions > ev.result.totalCollisions

\* C10: whenever at least one draw has run, and in the returned record,
\* winCounts has as many entries as the numBalls of the merged Params the
\* draws used, every entry is a non-negative integer, and the entries sum
\* to at most the number of runs made so far (at most numRuns).
C10_WinCounts ==
    /\ ev.pc \in {"loop", "done"} /\ ev.i > 0
          => /\ Len(ev.winCounts) = ev.result.params.numBalls
             /\ \A k \in 1..Len(ev.winCounts) : ev.winCounts[k] \in Nat
             /\ SumSeq(ev.winCounts) <= ev.i
             /\ ev.i <= ev.numRuns
    /\ ev.pc = "done"
          => /\ ev.evaluation.winCounts = ev.winCounts
             /\ ev.i = ev.numRuns

\* C10 witness: a returned evaluation of two-ball draws in which both
\* balls have won once
C10_Witness ==
    /\ ev.pc = "done"
    /\ ev.evaluation.winCounts = << 1, 1 >>
    /\ ev.result.params.numBalls = 2

(***************************************************************************)
(* SpecMerge: the entry of runSimulation, `params = DEFAULT_PARAMS` and    *)
(* `{ ...DEFAULT_PARAMS, ...params }`, on the objects a caller can pass.   *)
(* A property value is a number, << "number", v >>, or undefined.          *)
(***************************************************************************)
\* override values are the numbers 1..MaxOverride (and undefined)
MaxOverride == 2

Num(v) == << "number", v >>

\* DEFAULT_PARAMS as an object of property values
DefaultsObject == [ k \in DOMAIN DEFAULT_PARAMS |-> Num(DEFAULT_PARAMS[k]) ]

\* the keys a caller's object may hold: three knobs and a key that is no knob
OverrideKeys == { "numBalls", "ballRadius", "mixTime", "seed" }

OverrideValues == { Num(v) : v \in 1..MaxOverride } \cup { Undefined }

\* the arguments of a call: none, undefined, null, or an object
CallerArguments ==
    { [ kind |-> k ] : k \in { "absent", "undefined", "null" } }
      \cup { [ kind |-> "object", obj |-> o ] :
               o \in UNION { [ K -> OverrideValues ] : K \in SUBSET OverrideKeys } }

\* the default parameter value: used when the argument is absent or undefined
DefaultParameter(arg, default) ==
    IF arg.kind \in { "absent", "undefined" } THEN [ kind |-> "object", obj |-> default ]
    ELSE arg

\* ...v: the own properties of an object, none for null
SpreadOf(arg) == IF arg.kind = "object" THEN arg.obj ELSE << >>

\* lines 58-59: p for the argument arg
MergedParams(arg) ==
    Merge(DefaultsObject, SpreadOf(DefaultParameter(arg, DefaultsObject)))

MergeStart(arg) == [ pc |-> "called", arg |-> arg ]

\* const p = { ...DEFAULT_PARAMS, ...params }
MergeEntryOf(m) ==
    IF m.pc = "called"
    THEN { [ pc |-> "merged", arg |-> m.arg, p |-> MergedParams(m.arg) ] }
    ELSE {}

\* return { ..., params: p }: p is never assigned to after line 59
MergeReturnOf(m) ==
    IF m.pc = "merged"
    THEN { [ pc |-> "returned", arg |-> m.arg, p |-> m.p, resultParams |-> m.p ] }
    ELSE {}

ExceptMerge == << sim, ev, iso, opt, gen, wind, jet, geo, link, app, lm >>

InitMerge ==
    /\ mg \in { MergeStart(arg) : arg \in CallerArguments }
    /\ sim = IdleSim /\ ev = IdleEval
    /\ iso = Idle /\ opt = Idle /\ gen = Idle
    /\ wind = Idle /\ jet = Idle /\ geo = Idle
    /\ link = Idle /\ app = Idle /\ lm = Idle

MergeEntry == mg' \in MergeEntryOf(mg) /\ UNCHANGED ExceptMerge

MergeReturn == mg' \in MergeReturnOf(mg) /\ UNCHANGED ExceptMerge

NextMerge ==
    \/ MergeEntry
    \/ MergeReturn

SpecMerge == InitMerge /\ [][NextMerge]_vars

\* the object the caller supplied, empty when it supplied none
SuppliedObject(m) == IF m.arg.kind = "object" THEN m.arg.obj ELSE << >>

\* C11: after the merge, and in the echoed result.params, every key of
\* DEFAULT_PARAMS is present and not undefined; a key the caller supplied
\* has the caller's value, every other key its default value; for every
\* object the caller can pass.
C11_MergeComplete ==
    mg.pc \in { "merged", "returned" }
      => /\ \A k \in DOMAIN DEFAULT_PARAMS :
               /\ k \in DOMAIN mg.p
               /\ mg.p[k] # Undefined
               /\ k \in DOMAIN SuppliedObject(mg) => mg.p[k] = SuppliedObject(mg)[k]
               /\ k \notin DOMAIN SuppliedObject(mg) => mg.p[k] = Num(DEFAULT_PARAMS[k])
         /\ mg.pc = "returned" => mg.resultParams = mg.p

(***************************************************************************)
(* SpecIso: two runSimulation calls side by side.  Every variable a draw   *)
(* writes (lines 145-148, 169, 221, the engine and its world) is a local   *)
(* of its call, so the state of the pair is the two calls' states; a step  *)
(* is one loop iteration (or loop exit) of either call.                    *)
(***************************************************************************)
\* the two calls
Draws == { 1, 2 }

IsoStart(p1, p2) == [ pc |-> "running", draws |-> << SimStart(p1), SimStart(p2) >> ]

\* the counters declared once for all calls instead of in each call
IsoStepSharedCounters(s, i) ==
    { [ s EXCEPT !.draws[i] = n,
                 !.draws[3 - i].ballBallCollisions = n.ballBallCollisions,
                 !.draws[3 - i].ballWallCollisions = n.ballWallCollisions ] :
        n \in DrawStepOf(s.draws[i]) }

\* call i executes one loop iteration or loop exit
IsoStepOf(s, i) ==
    { [ s EXCEPT !.draws[i] = n ] : n \in DrawStepOf(s.draws[i]) }

ExceptIso == << sim, ev, mg, opt, gen, wind, jet, geo, link, app, lm >>

\* the Params of the two calls: single-ball draws of every mixing time
IsoParams == { pp \in CallerParams : pp.numBalls = 1 }

InitIso ==
    /\ iso \in { IsoStart(p1, p2) : p1 \in IsoParams, p2 \in IsoParams }
    /\ sim = IdleSim /\ ev = IdleEval
    /\ mg = Idle /\ opt = Idle /\ gen = Idle
    /\ wind = Idle /\ jet = Idle /\ geo = Idle
    /\ link = Idle /\ app = Idle /\ lm = Idle

IsoStep == (\E i \in Draws : iso' \in IsoStepOf(iso, i)) /\ UNCHANGED ExceptIso

NextIso == IsoStep

SpecIso == InitIso /\ [][NextIso]_vars

RatFinite(a) == a[2] > 0

\* C13: in every returned EvaluationResult, chiSquared is a finite number
\* >= 0 when successfulRuns > 0, and score is 0 when successRate is 0.
C13_ChiSquaredAndScore ==
    ev.pc = "done"
      => /\ ev.successfulRuns > 0
              => /\ RatFinite(ev.evaluation.chiSquared)
                 /\ ev.evaluation.chiSquared[1] >= 0
         /\ ev.evaluation.successRate = << 0, 1 >>
              => ev.evaluation.score = ZeroScore
         /\ (ev.evaluation.successRate = << 0, 1 >>) <=> (ev.successfulRuns = 0)

\* C13 witness: an evaluation of two-ball draws in which one ball won both
\* runs has returned, with chiSquared = 2
C13_Witness ==
    /\ ev.pc = "done"
    /\ ev.successfulRuns = 2
    /\ ev.evaluation.winCounts = << 2, 0 >>
    /\ ev.evaluation.chiSquared = << 2, 1 >>
    /\ ev.evaluation.score # ZeroScore

\* C14: when every draw of an evaluation timed out, avgSelectionTime,
\* chiSquared, chiSquaredNorm and maxDeviation are all +Infinity (not NaN),
\* and every entry of winCounts is 0.
C14_AllTimedOut ==
    ev.pc = "done" /\ ev.successfulRuns = 0
      => /\ ev.evaluation.avgSelectionTime = Infinity
         /\ ev.evaluation.chiSquared = Infinity
         /\ ev.evaluation.chiSquaredNorm = Infinity
         /\ ev.evaluation.maxDeviation = Infinity
         /\ \A k \in 1..Len(ev.evaluation.winCounts) : ev.evaluation.winCounts[k] = 0
         /\ Len(ev.evaluation.winCounts) = ev.params.numBalls

\* C14 witness: two draws of two balls, both timed out after collisions
C14_Witness ==
    /\ ev.pc = "done"
    /\ ev.numRuns = 2
    /\ ev.successfulRuns = 0
    /\ ev.params.numBalls = 2
    /\ ev.result.winnerIndex = -1
    /\ ev.totalCollisions > 0

\* C15: with numBalls = 1, every draw that has a winner has winnerIndex 0,
\* and every returned evaluation with a successful draw has chiSquared,
\* chiSquaredNorm and maxDeviation equal to 0.
C15_SingleBall ==
    ev.pc \in { "loop", "done" } /\ ev.params.numBalls = 1
      => /\ ev.i > 0 /\ ev.result.winnerIndex # -1 => ev.result.winnerIndex = 0
         /\ ev.i > 0 /\ ev.result.winner # Null => ev.result.winnerIndex = 0
         /\ ev.pc = "done" /\ ev.successfulRuns > 0
              => /\ ev.evaluation.chiSquared = << 0, 1 >>
                 /\ ev.evaluation.chiSquaredNorm = << 0, 1 >>
                 /\ ev.evaluation.maxDeviation = << 0, 1 >>

\* C15 witness: a single-ball evaluation of two draws, one timed out and
\* one won by ball 0
C15_Witness ==
    /\ ev.pc = "done"
    /\ ev.params.numBalls = 1
    /\ ev.numRuns = 2
    /\ ev.successfulRuns = 1
    /\ ev.evaluation.winCounts = << 1 >>

(***************************************************************************)
(* SpecGen: one generateRandomParams call.  Math.random is a stream of     *)
(* numbers in [0, 1); a call consumes one number for each key.             *)
(***************************************************************************)
\* Math.random returns the multiples of 1/RandomDen below 1 (and 19/20)
RandomDen == 4

Range(min, max, integer) == [ min |-> min, max |-> max, integer |-> integer ]

PARAM_RANGES ==
    [ gravityY           |-> Range(Rat(1, 2), Rat(4, 1), FALSE),
      gravityScale       |-> Range(Rat(1, 1000), Rat(8, 1000), FALSE),
      numBalls           |-> Range(Rat(5, 1), Rat(15, 1), TRUE),
      ballRadius         |-> Range(Rat(18, 1), Rat(35, 1), TRUE),
      ballRestitution    |-> Range(Rat(1, 2), Rat(1, 1), FALSE),
      ballFriction       |-> Range(Rat(1, 100), Rat(2, 10), FALSE),
      ballFrictionAir    |-> Range(Rat(5, 1000), Rat(6, 100), FALSE),
      ballDensity        |-> Range(Rat(1, 10000), Rat(4, 1000), FALSE),
      wallFriction       |-> Range(Rat(5, 100), Rat(1, 2), FALSE),
      wallRestitution    |-> Range(Rat(1, 2), Rat(1, 1), FALSE),
      windForceX         |-> Range(Rat(5, 1000), Rat(35, 1000), FALSE),
      windForceY         |-> Range(Rat(1, 100), Rat(5, 100), FALSE),
      windMaxDistScale   |-> Range(Rat(1, 2), Rat(13, 10), FALSE),
      windSourceAngle    |-> Range(Rat(2, 10), Rat(12, 10), FALSE),
      windOscFreq        |-> Range(Rat(3, 10), Rat(3, 1), FALSE),
      windOscAmp         |-> Range(Rat(2, 10), Rat(9, 10), FALSE),
      chaosX             |-> Range(Rat(3, 1000), Rat(3, 100), FALSE),
      chaosY             |-> Range(Rat(3, 1000), Rat(3, 100), FALSE),
      angularNudgeMag    |-> Range(Rat(2, 10), Rat(1, 1), FALSE),
      angularNudgeChance |-> Range(Rat(1, 10), Rat(1, 2), FALSE),
      mixTime            |-> Range(Rat(4000, 1), Rat(8000, 1), TRUE) ]

\* Object.entries(PARAM_RANGES): the keys in the order they are written
RangeKeys ==
    << "gravityY", "gravityScale", "numBalls", "ballRadius", "ballRestitution",
       "ballFriction", "ballFrictionAir", "ballDensity", "wallFriction",
       "wallRestitution", "windForceX", "windForceY", "windMaxDistScale",
       "windSourceAngle", "windOscFreq", "windOscAmp", "chaosX", "chaosY",
       "angularNudgeMag", "angularNudgeChance", "mixTime" >>

RandomChoices == { Rat(k, RandomDen) : k \in 0..(RandomDen - 1) } \cup { Rat(19, 20) }

\* the streams Math.random can produce: two numbers, returned in turn
RandomStreams == RandomChoices \X RandomChoices

\* the n-th number (n = 1, 2, ...) of a stream
RandomAt(stream, n) == stream[2 - (n % 2)]

\* min + r * max, the width of the range forgotten
RandomInRangeNoWidth(min, max, r) == RatAdd(min, RatMul(r, max))

\* min + Math.random() * (max - min)
RandomInRange(min, max, r) == RatAdd(min, RatMul(r, RatSub(max, min)))

\* the value stored for a key: Math.round(value) when range.integer
RangeValue(range, r) ==
    LET value == RandomInRange(range.min, range.max, r)
    IN  IF range.integer THEN MathRound(value[1], value[2]) ELSE value

GenStart(stream) == [ pc |-> "loop", k |-> 0, params |-> << >>, stream |-> stream ]

\* one iteration of the loop over the entries
GenKeyOf(g) ==
    IF g.pc = "loop" /\ g.k < Len(RangeKeys)
    THEN LET key == RangeKeys[g.k + 1]
             value == RangeValue(PARAM_RANGES[key], RandomAt(g.stream, g.k + 1))
         IN  { [ g EXCEPT !.k = @ + 1,
                          !.params = [ x \in (DOMAIN g.params) \cup { key } |->
                                         IF x = key THEN value ELSE g.params[x] ] ] }
    ELSE {}

\* return params
GenReturnOf(g) ==
    IF g.pc = "loop" /\ ~(g.k < Len(RangeKeys))
    THEN { [ g EXCEPT !.pc = "returned" ] }
    ELSE {}

\* generateRandomParams() as a whole call on a stream
RECURSIVE GenRun(_)
GenRun(g) ==
    IF g.pc = "returned" THEN g.params
    ELSE GenRun(CHOOSE n \in GenKeyOf(g) \cup GenReturnOf(g) : TRUE)

GenerateRandomParams(stream) == GenRun(GenStart(stream))

ExceptGen == << sim, ev, mg, iso, opt, wind, jet, geo, link, app, lm >>

InitGen ==
    /\ gen \in { GenStart(stream) : stream \in RandomStreams }
    /\ sim = IdleSim /\ ev = IdleEval
    /\ mg = Idle /\ iso = Idle /\ opt = Idle
    /\ wind = Idle /\ jet = Idle /\ geo = Idle
    /\ link = Idle /\ app = Idle /\ lm = Idle

GenKey == gen' \in GenKeyOf(gen) /\ UNCHANGED ExceptGen

GenReturn == gen' \in GenReturnOf(gen) /\ UNCHANGED ExceptGen

NextGen ==
    \/ GenKey
    \/ GenReturn

SpecGen == InitGen /\ [][NextGen]_vars

RatLeq(a, b) == ~RatLess(b, a)

\* the keys whose range is flagged integer
IntegerKeys == { k \in DOMAIN PARAM_RANGES : PARAM_RANGES[k].integer }

\* C20: the range table has exactly the keys of DEFAULT_PARAMS, its integer
\* keys are numBalls, ballRadius and mixTime; the keys assigned so far are
\* the first k of the table; every assigned value lies within [min, max] of
\* its key, and for an integer key it is an integer (within [min, max]
\* after the rounding); the returned record has every key.
C20_GeneratedInRange ==
    gen.pc \in { "loop", "returned" }
      => /\ DOMAIN PARAM_RANGES = DOMAIN DEFAULT_PARAMS
         /\ { RangeKeys[n] : n \in 1..Len(RangeKeys) } = DOMAIN PARAM_RANGES
         /\ IntegerKeys = { "numBalls", "ballRadius", "mixTime" }
         /\ DOMAIN gen.params = { RangeKeys[n] : n \in 1..gen.k }
         /\ gen.pc = "returned" => DOMAIN gen.params = DOMAIN DEFAULT_PARAMS
         /\ \A key \in DOMAIN gen.params :
               LET range == PARAM_RANGES[key]
                   v == gen.params[key]
               IN  IF key \in IntegerKeys
                   THEN /\ v \in Int
                        /\ RatLeq(range.min, << v, 1 >>)
                        /\ RatLeq(<< v, 1 >>, range.max)
                   ELSE /\ RatFinite(v)
                        /\ RatLeq(range.min, v)
                        /\ RatLeq(v, range.max)

\* C20 witness: a returned record in which rounding took numBalls up to the
\* maximum of its range (5 + 19/20 * 10 = 14.5) and ballRadius is the
\* minimum of its range
C20_Witness ==
    /\ gen.pc = "returned"
    /\ gen.params.numBalls = 15
    /\ gen.params.ballRadius = 18
    /\ gen.params.mixTime = 7800

(***************************************************************************)
(* SpecOpt: the optimizer script (Phase 1, Phase 2, final report).         *)
(*   pc             phase1 / select / phase2 / done / exited               *)
(*   i, j           the loop variables of the Phase-1 and Phase-2 loops    *)
(*   phase1Results, phase2Candidates, phase2Results, best: the script's    *)
(*                  variables of that name (best: none until reported)     *)
(*   exitStatus     the status the process ends with (none while running)  *)
(*   noViable       the line 'No configs achieved >= 50% success rate.'    *)
(*                  has been printed                                       *)
(*   calls          the evaluateConfig calls made so far, in order         *)
(*   draws          the number of runSimulation calls made in Phase 2      *)
(* The script's constants are scaled down: the source has 100 configs,     *)
(* 40 runs, top 5 and 1000 runs.                                           *)
(***************************************************************************)
PHASE1_CONFIGS == 2
PHASE1_RUNS == 3
PHASE2_TOP == 1
PHASE2_RUNS == 1

\* the scores of evaluations with a successful draw, as levels of a total
\* order; an evaluation without successful draw has score 0
ScoreLevels == { -1, 2 }

\* what evaluateConfig(params, numRuns) can return, as far as the script
\* reads it: successRate = successfulRuns / numRuns for 0..numRuns
\* successful runs, and the score
EvaluationOutcomes(params, numRuns) ==
    { [ params |-> params, numRuns |-> numRuns,
        successRate |-> Rat(k, numRuns),
        score |-> IF k = 0 THEN 0 ELSE sc,
        isDefault |-> FALSE ] : k \in 0..numRuns, sc \in ScoreLevels }

\* the numbers Math.random returns to the i-th generateRandomParams call
SampleStream(i) == << Rat(i % RandomDen, RandomDen), Rat(19, 20) >>

\* arr.sort((a, b) => b.score - a.score): stable, by descending score
RECURSIVE InsertByScore(_, _)
InsertByScore(r, sorted) ==
    IF sorted = << >> THEN << r >>
    ELSE IF Head(sorted).score >= r.score
         THEN << Head(sorted) >> \o InsertByScore(r, Tail(sorted))
         ELSE << r >> \o sorted

RECURSIVE SortInto(_, _)
SortInto(sorted, rest) ==
    IF rest = << >> THEN sorted
    ELSE SortInto(InsertByScore(Head(rest), sorted), Tail(rest))

\* the sort left out
SortByScoreOmitted(arr) == arr

SortByScore(arr) == SortInto(<< >>, arr)

\* the filter without its `!r.isDefault` test
IsCandidateWithDefault(r) == RatLeq(Rat(1, 2), r.successRate)

\* r => r.successRate >= 0.5 && !r.isDefault
IsCandidate(r) == RatLeq(Rat(1, 2), r.successRate) /\ ~r.isDefault

\* arr.slice(0, n)
Slice0(arr, n) == SubSeq(arr, 1, IF n < Len(arr) THEN n ELSE Len(arr))

NoBest == [ reported |-> FALSE ]

NoStatus == -1

OptStart ==
    [ pc |-> "phase1", i |-> 0, j |-> 0,
      phase1Results |-> << >>, phase2Candidates |-> << >>,
      phase2Results |-> << >>, best |-> NoBest,
      exitStatus |-> NoStatus, noViable |-> FALSE,
      calls |-> << >>, draws |-> 0 ]

\* evaluateConfig(params, numRuns) is called, and returns r
Called(o, params, numRuns) ==
    [ o EXCEPT !.calls = Append(@, [ params |-> params, numRuns |-> numRuns ]) ]

\* one iteration of the Phase-1 loop (lines 356-365)
Phase1StepOf(o) ==
    IF o.pc = "phase1" /\ o.i < PHASE1_CONFIGS
    THEN LET params == GenerateRandomParams(SampleStream(o.i))
         IN  { [ Called(o, params, PHASE1_RUNS) EXCEPT
                   !.i = @ + 1,
                   !.phase1Results = Append(@, r) ] :
                 r \in EvaluationOutcomes(params, PHASE1_RUNS) }
    ELSE {}

\* after the loop: the default evaluation, flagged and pushed, and the sort
\* (lines 367-372)
Phase1DefaultOf(o) ==
    IF o.pc = "phase1" /\ ~(o.i < PHASE1_CONFIGS)
    THEN { [ Called(o, DEFAULT_PARAMS, PHASE1_RUNS) EXCEPT
               !.pc = "select",
               !.phase1Results =
                   SortByScore(Append(@, [ r EXCEPT !.isDefault = TRUE ])) ] :
             r \in EvaluationOutcomes(DEFAULT_PARAMS, PHASE1_RUNS) }
    ELSE {}

\* the selection without the test for an empty list
SelectCandidatesNoExit(o) ==
    IF o.pc = "select"
    THEN { [ o EXCEPT !.pc = "phase2",
                      !.phase2Candidates =
                          Slice0(SelectSeq(o.phase1Results, IsCandidate), PHASE2_TOP),
                      !.j = 0 ] }
    ELSE {}

\* the candidates are selected; without any, the script prints its line
\* and exits with status 1 (lines 427-436)
SelectCandidatesOf(o) ==
    IF o.pc = "select"
    THEN LET candidates == Slice0(SelectSeq(o.phase1Results, IsCandidate), PHASE2_TOP)
         IN  IF Len(candidates) = 0
             THEN { [ o EXCEPT !.pc = "exited", !.phase2Candidates = candidates,
                               !.noViable = TRUE, !.exitStatus = 1 ] }
             ELSE { [ o EXCEPT !.pc = "phase2", !.phase2Candidates = candidates,
                               !.j = 0 ] }
    ELSE {}

\* one iteration of the Phase-2 loop (lines 439-445)
Phase2StepOf(o) ==
    IF o.pc = "phase2" /\ o.j < Len(o.phase2Candidates)
    THEN LET params == o.phase2Candidates[o.j + 1].params
         IN  { [ Called(o, params, PHASE2_RUNS) EXCEPT
                   !.j = @ + 1,
                   !.draws = @ + PHASE2_RUNS,
                   !.phase2Results = Append(@, r) ] :
                 r \in EvaluationOutcomes(params, PHASE2_RUNS) }
    ELSE {}

\* the final sort and report; the script ends (lines 447-494)
ReportOf(o) ==
    IF o.pc = "phase2" /\ ~(o.j < Len(o.phase2Candidates))
    THEN LET sorted == SortByScore(o.phase2Results)
         IN  { [ o EXCEPT !.pc = "done", !.phase2Results = sorted,
                          !.best = [ reported |-> TRUE, result |-> sorted[1] ],
                          !.exitStatus = 0 ] }
    ELSE {}

ExceptOpt == << sim, ev, mg, iso, gen, wind, jet, geo, link, app, lm >>

InitOpt ==
    /\ opt = OptStart
    /\ sim = IdleSim /\ ev = IdleEval
    /\ mg = Idle /\ iso = Idle /\ gen = Idle
    /\ wind = Idle /\ jet = Idle /\ geo = Idle
    /\ link = Idle /\ app = Idle /\ lm = Idle

Phase1Step == opt' \in Phase1StepOf(opt) /\ UNCHANGED ExceptOpt

Phase1Default == opt' \in Phase1DefaultOf(opt) /\ UNCHANGED ExceptOpt

SelectCandidates == opt' \in SelectCandidatesOf(opt) /\ UNCHANGED ExceptOpt

Phase2Step == opt' \in Phase2StepOf(opt) /\ UNCHANGED ExceptOpt

Report == opt' \in ReportOf(opt) /\ UNCHANGED ExceptOpt

NextOpt ==
    \/ Phase1Step
    \/ Phase1Default
    \/ SelectCandidates
    \/ Phase2Step
    \/ Report

SpecOpt == InitOpt /\ [][NextOpt]_vars

(***************************************************************************)
(* Claims about the optimizer script.                                      *)
(***************************************************************************)
\* arr is in non-increasing order of score
RankedByScore(arr) ==
    \A n \in 1..(Len(arr) - 1) : arr[n].score >= arr[n + 1].score

\* the positions of phase1Results flagged as default
DefaultEntries(o) == { n \in 1..Len(o.phase1Results) : o.phase1Results[n].isDefault }

\* C17: during Phase 1 one evaluation of PHASE1_RUNS draws has been made
\* for each sampled configuration so far, none flagged; after it there are
\* PHASE1_CONFIGS + 1 entries from PHASE1_CONFIGS + 1 evaluateConfig calls
\* of PHASE1_RUNS draws each, the first PHASE1_CONFIGS on the sampled
\* Params and the last on DEFAULT_PARAMS; exactly one entry is flagged
\* default, it is the one for DEFAULT_PARAMS; and the entries are in
\* non-increasing order of score.
C17_Phase1 ==
    /\ opt.pc = "phase1"
          => /\ Len(opt.phase1Results) = opt.i
             /\ opt.i <= PHASE1_CONFIGS
             /\ Len(opt.calls) = opt.i
             /\ DefaultEntries(opt) = {}
             /\ \A n \in 1..opt.i :
                   /\ opt.calls[n].numRuns = PHASE1_RUNS
                   /\ opt.phase1Results[n].params = opt.calls[n].params
                   /\ opt.phase1Results[n].numRuns = PHASE1_RUNS
    /\ opt.pc \in { "select", "phase2", "done", "exited" }
          => /\ Len(opt.phase1Results) = PHASE1_CONFIGS + 1
             /\ Len(opt.calls) >= PHASE1_CONFIGS + 1
             /\ \A n \in 1..(PHASE1_CONFIGS + 1) :
                   /\ opt.calls[n].numRuns = PHASE1_RUNS
                   /\ (opt.calls[n].params = DEFAULT_PARAMS) <=> (n = PHASE1_CONFIGS + 1)
                   /\ opt.phase1Results[n].numRuns = PHASE1_RUNS
             /\ Cardinality(DefaultEntries(opt)) = 1
             /\ \A n \in 1..(PHASE1_CONFIGS + 1) :
                   opt.phase1Results[n].isDefault
                     <=> opt.phase1Results[n].params = DEFAULT_PARAMS
             /\ Cardinality({ n \in 1..(PHASE1_CONFIGS + 1) :
                                 ~opt.phase1Results[n].isDefault }) = PHASE1_CONFIGS
             /\ RankedByScore(opt.phase1Results)

\* C17 witness: Phase 1 has ended with the default entry ranked between a
\* sampled entry of higher score and one of lower score
C17_Witness ==
    /\ opt.pc = "select"
    /\ opt.phase1Results[1].score > opt.phase1Results[2].score
    /\ opt.phase1Results[2].isDefault
    /\ opt.phase1Results[2].score > opt.phase1Results[3].score

\* the positions of phase1Results that clear the threshold and are not the
\* default entry
Eligible(o) ==
    { n \in 1..Len(o.phase1Results) :
        /\ ~o.phase1Results[n].isDefault
        /\ o.phase1Results[n].successRate[1] * 2 >= o.phase1Results[n].successRate[2] }

\* the position in phase1Results of the m-th eligible entry
EligibleAt(o, m) ==
    CHOOSE n \in Eligible(o) : Cardinality({ x \in Eligible(o) : x < n }) = m - 1

C19_NoViableConfiguration ==
    /\ [](opt.pc = "exited"
            => /\ Eligible(opt) = {}
               /\ opt.exitStatus = 1
               /\ opt.noViable
               /\ opt.draws = 0
               /\ Len(opt.calls) = PHASE1_CONFIGS + 1
               /\ opt.phase2Results = << >>
               /\ opt.best = NoBest)
    /\ [](opt.pc \in { "phase2", "done" }
            => /\ Eligible(opt) # {}
               /\ ~opt.noViable
               /\ opt.draws = opt.j * PHASE2_RUNS)
    /\ [](opt.pc \in { "phase1", "select", "phase2" }
            => opt.exitStatus = NoStatus /\ opt.best = NoBest)
    /\ [](opt.pc = "done"
            => /\ opt.exitStatus = 0
               /\ opt.draws = Len(opt.phase2Candidates) * PHASE2_RUNS
               /\ opt.draws > 0
               /\ opt.best.reported
               /\ opt.best.result = opt.phase2Results[1]
               /\ \A m \in 1..Len(opt.phase2Results) :
                     opt.best.result.score >= opt.phase2Results[m].score)
    /\ [][/\ opt.pc \notin { "exited", "done" }
          /\ opt.pc = "select"
                => opt'.pc = IF Eligible(opt) = {} THEN "exited" ELSE "phase2"
          /\ opt.pc = "phase2" => opt'.pc \in { "phase2", "done" }]_vars

\* C19 witness: the script has exited with status 1 although a sampled
\* configuration had a successful draw and the default entry cleared the
\* threshold
C19_Witness ==
    /\ opt.pc = "exited"
    /\ opt.exitStatus = 1
    /\ \E n \in 1..Len(opt.phase1Results) :
          /\ ~opt.phase1Results[n].isDefault
          /\ opt.phase1Results[n].successRate = Rat(1, 3)
    /\ \E n \in 1..Len(opt.phase1Results) :
          /\ opt.phase1Results[n].isDefault
          /\ opt.phase1Results[n].successRate = << 1, 1 >>

(***************************************************************************)
(* SpecWind: one draw with its 'beforeUpdate' handler.                     *)
(*   d             the draw (as sim)                                       *)
(*   stage         out: between two Engine.update calls;  forced: the      *)
(*                 handler has run, the engine has not yet integrated;     *)
(*                 integrated: the engine has integrated the step and is   *)
(*                 reporting its collisions                                *)
(*   handlerRuns   number of runs of the handler                           *)
(*   applied       per ball, the number of Body.applyForce calls on it     *)
(*   integrations  number of steps the engine has integrated               *)
(***************************************************************************)
WindStart(params) ==
    LET d == SimStart(params)
    IN  [ d |-> d, stage |-> "out", handlerRuns |-> 0,
          applied |-> [ b \in Balls(d.p) |-> 0 ], integrations |-> 0 ]

\* the handler applying its force in the mixing phase only
WindHandlerMixingOnly(w, d) ==
    [ w EXCEPT !.d = d, !.stage = "forced", !.handlerRuns = @ + 1,
               !.applied = IF d.pc = "Mixing"
                           THEN [ b \in DOMAIN @ |-> @[b] + 1 ] ELSE @ ]

\* the handler (lines 169-206), entered with the draw in state d (simStep
\* already incremented): `for (const ball of balls)` applies one force to
\* each ball of the balls array
WindHandler(w, d) ==
    [ w EXCEPT !.d = d, !.stage = "forced", !.handlerRuns = @ + 1,
               !.applied = [ b \in DOMAIN @ |-> @[b] + 1 ] ]

\* Engine.update is called from one of the two loops: 'beforeUpdate' fires
WindUpdateOf(w) ==
    IF w.stage = "out"
    THEN { WindHandler(w, d) : d \in MixStepOf(w.d) \cup SelectStepOf(w.d) }
    ELSE {}

\* the engine integrates the step
WindIntegrateOf(w) ==
    IF w.stage = "forced"
    THEN { [ w EXCEPT !.stage = "integrated", !.integrations = @ + 1 ] }
    ELSE {}

\* the engine reports one pair of the step's collisionStart event
WindCollisionOf(w) ==
    IF w.stage = "integrated"
    THEN { [ w EXCEPT !.d = d ] : d \in CollisionOf(w.d) }
    ELSE {}

\* Engine.update returns
WindReturnOf(w) ==
    IF w.stage = "integrated"
    THEN { [ w EXCEPT !.d = d, !.stage = "out" ] : d \in UpdateReturnOf(w.d) }
    ELSE {}

\* the gate is removed between the two loops
WindOpenGateOf(w) ==
    IF w.stage = "out"
    THEN { [ w EXCEPT !.d = d ] : d \in OpenGateOf(w.d) }
    ELSE {}

\* the draw returns
WindFinishOf(w) ==
    IF w.stage = "out"
    THEN { [ w EXCEPT !.d = d ] : d \in FinishOf(w.d) }
    ELSE {}

ExceptWind == << sim, ev, mg, iso, opt, gen, jet, geo, link, app, lm >>

InitWind ==
    /\ wind \in { WindStart(params) : params \in CallerParams }
    /\ sim = IdleSim /\ ev = IdleEval
    /\ mg = Idle /\ iso = Idle /\ opt = Idle /\ gen = Idle
    /\ jet = Idle /\ geo = Idle /\ link = Idle /\ app = Idle /\ lm = Idle

WindUpdate == wind' \in WindUpdateOf(wind) /\ UNCHANGED ExceptWind

WindIntegrate == wind' \in WindIntegrateOf(wind) /\ UNCHANGED ExceptWind

WindCollision == wind' \in WindCollisionOf(wind) /\ UNCHANGED ExceptWind

WindReturn == wind' \in WindReturnOf(wind) /\ UNCHANGED ExceptWind

WindOpenGate == wind' \in WindOpenGateOf(wind) /\ UNCHANGED ExceptWind

WindFinish == wind' \in WindFinishOf(wind) /\ UNCHANGED ExceptWind

NextWind ==
    \/ WindUpdate
    \/ WindIntegrate
    \/ WindCollision
    \/ WindReturn
    \/ WindOpenGate
    \/ WindFinish

SpecWind == InitWind /\ [][NextWind]_vars

\* C21: whenever the engine integrates a step, the wind handler has run
\* exactly once for that step and for each earlier one, in Mixing and in
\* Selecting alike, and every ball has had one force applied per step; the
\* removal of the gate leaves the tick counter simStep unchanged, and at
\* Finished simStep is the number of engine steps of the whole draw.
C21_WindEveryStep ==
    /\ [][wind'.integrations = wind.integrations + 1
            => /\ wind'.d.pc \in { "Mixing", "Selecting" }
               /\ wind'.handlerRuns = wind'.integrations
               /\ wind'.d.simStep = wind'.integrations
               /\ \A b \in Balls(wind'.d.p) :
                     wind'.applied[b] = wind'.integrations]_vars
    /\ [][wind.d.pc = "Mixing" /\ wind'.d.pc = "Selecting"
            => wind'.d.simStep = wind.d.simStep]_vars
    /\ [](wind.d.pc = "Finished"
            => /\ wind.d.simStep = wind.integrations
               /\ wind.d.simStep = wind.d.mixI + wind.d.selectionSteps
               /\ wind.handlerRuns = wind.integrations)

\* C21 witness: a finished draw of two balls that ran engine steps in both
\* phases
C21_Witness ==
    /\ wind.d.pc = "Finished"
    /\ wind.d.p.numBalls = 2
    /\ wind.d.mixI > 0
    /\ wind.d.selectionSteps > 0
    /\ wind.integrations = wind.d.mixI + wind.d.selectionSteps
    /\ \A b \in Balls(wind.d.p) : wind.applied[b] = wind.integrations

(***************************************************************************)
(* SpecJet: the strength of the two air jets on one ball in one run of the *)
(* 'beforeUpdate' handler (lines 177-188).  Coordinates are exact          *)
(* rationals; Math.sqrt rounds down to a multiple of 1/SqrtDen; the        *)
(* sources are the perimeter points of the angles whose sine and cosine    *)
(* are rational.                                                           *)
(***************************************************************************)
\* ball positions are drawn from a grid of (GridN + 1) x (GridN + 1) points
GridN == 4

CANVAS_WIDTH == 520
CANVAS_HEIGHT == 500
WALL == 12
LEFT == WALL
RIGHT == CANVAS_WIDTH - WALL
TOP == WALL
BOTTOM == CANVAS_HEIGHT - WALL
CX == CANVAS_WIDTH \div 2
CY == CANVAS_HEIGHT \div 2
RX == (CANVAS_WIDTH - WALL * 2) \div 2
RY == (CANVAS_HEIGHT - WALL * 2) \div 2
CHUTE_HEIGHT == 60

\* the precision of Math.sqrt in the model
SqrtDen == 10

\* the largest k in lo..hi with k * k <= n
RECURSIVE ISqrt(_, _, _)
ISqrt(n, lo, hi) ==
    IF lo >= hi THEN lo
    ELSE LET mid == (lo + hi + 1) \div 2
         IN  IF mid * mid <= n THEN ISqrt(n, mid, hi) ELSE ISqrt(n, lo, mid - 1)

\* Math.sqrt(a) for a rational a >= 0
MathSqrt(a) ==
    LET n == (a[1] * SqrtDen * SqrtDen) \div a[2]
    IN  Rat(ISqrt(n, 0, 46340), SqrtDen)

RatSquare(a) == RatMul(a, a)

\* Math.sqrt((x - sx) ** 2 + (y - sy) ** 2)
Distance(x, y, sx, sy) ==
    MathSqrt(RatAdd(RatSquare(RatSub(x, sx)), RatSquare(RatSub(y, sy))))

\* const maxDist = Math.sqrt((RIGHT - LEFT) ** 2 + (BOTTOM - TOP) ** 2)
MaxDist ==
    MathSqrt(Rat((RIGHT - LEFT) * (RIGHT - LEFT) + (BOTTOM - TOP) * (BOTTOM - TOP), 1))

\* << sin a, cos a >> for the values a of windSourceAngle taken
WindSourceAngles ==
    { << Rat(0, 1), Rat(1, 1) >>, << Rat(3, 5), Rat(4, 5) >>, << Rat(4, 5), Rat(3, 5) >> }

\* srcLx = CX + RX * cos(PI/2 + a), srcLy = CY + RY * sin(PI/2 + a)
SourceL(trig) ==
    << RatSub(Rat(CX, 1), RatMul(Rat(RX, 1), trig[1])),
       RatAdd(Rat(CY, 1), RatMul(Rat(RY, 1), trig[2])) >>

\* srcRx = CX + RX * cos(PI/2 - a), srcRy = CY + RY * sin(PI/2 - a)
SourceR(trig) ==
    << RatAdd(Rat(CX, 1), RatMul(Rat(RX, 1), trig[1])),
       RatAdd(Rat(CY, 1), RatMul(Rat(RY, 1), trig[2])) >>

\* 1 - dist / (maxDist * scale), without the clamp
JetStrengthUnclamped(dist, scale) ==
    RatSub(Rat(1, 1), RatDiv(dist, RatMul(MaxDist, scale)))

\* Math.max(0, 1 - dist / (maxDist * p.windMaxDistScale))
JetStrength(dist, scale) ==
    RatMax(Rat(0, 1), RatSub(Rat(1, 1), RatDiv(dist, RatMul(MaxDist, scale))))

\* positive values of windMaxDistScale, within PARAM_RANGES and outside it
WindMaxDistScales == { Rat(1, 100), Rat(36, 100), Rat(13, 10), Rat(3, 1) }

\* positions a ball can have: the canvas and the chute above it
BallXs == { Rat((k * CANVAS_WIDTH) \div GridN, 1) : k \in 0..GridN }
BallYs ==
    { Rat(((k * (CANVAS_HEIGHT + CHUTE_HEIGHT)) \div GridN) - CHUTE_HEIGHT, 1) :
        k \in 0..GridN }

JetStart(x, y, scale, trig) ==
    [ pc |-> "ball", x |-> x, y |-> y, scale |-> scale, trig |-> trig ]

\* the two strengths computed for one ball
JetComputeOf(j) ==
    IF j.pc = "ball"
    THEN LET srcL == SourceL(j.trig)
             srcR == SourceR(j.trig)
             distL == Distance(j.x, j.y, srcL[1], srcL[2])
             distR == Distance(j.x, j.y, srcR[1], srcR[2])
         IN  { [ pc |-> "computed", x |-> j.x, y |-> j.y, scale |-> j.scale,
                 trig |-> j.trig,
                 distL |-> distL, strengthL |-> JetStrength(distL, j.scale),
                 distR |-> distR, strengthR |-> JetStrength(distR, j.scale) ] }
    ELSE {}

ExceptJet == << sim, ev, mg, iso, opt, gen, wind, geo, link, app, lm >>

InitJet ==
    /\ jet \in { JetStart(x, y, scale, trig) :
                   x \in BallXs, y \in BallYs,
                   scale \in WindMaxDistScales, trig \in WindSourceAngles }
    /\ sim = IdleSim /\ ev = IdleEval
    /\ mg = Idle /\ iso = Idle /\ opt = Idle /\ gen = Idle
    /\ wind = Idle /\ geo = Idle /\ link = Idle /\ app = Idle /\ lm = Idle

JetCompute == jet' \in JetComputeOf(jet) /\ UNCHANGED ExceptJet

NextJet == JetCompute

SpecJet == InitJet /\ [][NextJet]_vars

\* the strength the claim states for a jet at distance dist
StatedStrength(dist, scale) ==
    LET reach == RatMul(MaxDist, scale)
    IN  IF RatLeq(reach, dist) THEN Rat(0, 1)
        ELSE RatSub(Rat(1, 1), RatDiv(dist, reach))

\* C22: for every ball position and every positive windMaxDistScale, each
\* jet's strength is at least 0 and at most 1; it is exactly 0 when the
\* distance to the source is at least maxDist * windMaxDistScale and
\* 1 - dist / (maxDist * windMaxDistScale) otherwise.
C22_JetStrength ==
    jet.pc = "computed" =>
        /\ RatLess(Rat(0, 1), jet.scale)
        /\ \A s \in { << jet.distL, jet.strengthL >>, << jet.distR, jet.strengthR >> } :
              /\ RatFinite(s[2])
              /\ RatLeq(Rat(0, 1), s[2])
              /\ RatLeq(s[2], Rat(1, 1))
              /\ s[2] = StatedStrength(s[1], jet.scale)
              /\ (s[2] = Rat(0, 1)) <=> RatLeq(RatMul(MaxDist, jet.scale), s[1])

\* C22 witness: a ball within reach of the left jet and out of reach of the
\* right one
C22_Witness ==
    /\ jet.pc = "computed"
    /\ RatLess(Rat(0, 1), jet.strengthL)
    /\ RatLess(jet.strengthL, Rat(1, 1))
    /\ jet.strengthR = Rat(0, 1)
    /\ RatLess(RatMul(MaxDist, jet.scale), jet.distR)

(***************************************************************************)
(* SpecGeo: the construction of the world at the start of runSimulation    *)
(* (lines 60-134), done twice for the same Params.  A body is a record of  *)
(* the statement that made it (part), its label and its position.          *)
(* Math.cos and Math.sin at the multiples of 2*PI/48 are read from a table *)
(* of four decimals.                                                       *)
(***************************************************************************)
OVAL_SEGMENTS == 48

\* 10000 * sin(k * PI / 24), k = 0 .. 12
SinTable ==
    << 0, 1305, 2588, 3827, 5000, 6088, 7071, 7934, 8660, 9239, 9659, 9914, 10000 >>

TrigDen == 10000

\* 10000 * Math.sin(i * angleStep)
Sin48(i) ==
    LET k == i % 48
    IN  IF k <= 12 THEN SinTable[k + 1]
        ELSE IF k <= 24 THEN SinTable[24 - k + 1]
        ELSE IF k <= 36 THEN -SinTable[k - 24 + 1]
        ELSE -SinTable[48 - k + 1]

\* 10000 * Math.cos(i * angleStep)
Cos48(i) == Sin48(i + 12)

ChuteWidth(p) == p.ballRadius * 2 + 14
ChuteLeft(p) == Rat(CANVAS_WIDTH - ChuteWidth(p), 2)
ChuteRight(p) == Rat(CANVAS_WIDTH + ChuteWidth(p), 2)

\* the midpoint of oval segment i: mx = (x1 + x2) / 2, my = (y1 + y2) / 2
\* with x = CX + RX * cos(a) and y = CY + RY * sin(a) at the two ends
OvalMid(i) ==
    << Rat(2 * CX * TrigDen + RX * (Cos48(i) + Cos48(i + 1)), 2 * TrigDen),
       Rat(2 * CY * TrigDen + RY * (Sin48(i) + Sin48(i + 1)), 2 * TrigDen) >>

\* the test of the `continue`: the midpoint lies in the chute gap
InChuteGap(p, i) ==
    LET m == OvalMid(i)
    IN  /\ RatLess(m[2], Rat(CY - RY + 30, 1))
        /\ RatLess(RatSub(ChuteLeft(p), Rat(10, 1)), m[1])
        /\ RatLess(m[1], RatAdd(ChuteRight(p), Rat(10, 1)))

Body(part, label, x, y) == [ part |-> part, label |-> label, x |-> x, y |-> y ]

\* the oval segments pushed by the loop over i = 0 .. OVAL_SEGMENTS - 1
RECURSIVE OvalBodies(_, _)
OvalBodies(p, i) ==
    IF i >= OVAL_SEGMENTS THEN << >>
    ELSE (IF InChuteGap(p, i) THEN << >>
          ELSE << Body("oval", LABEL_WALL, OvalMid(i)[1], OvalMid(i)[2]) >>)
            \o OvalBodies(p, i + 1)

\* the two funnel segments and the two chute walls
FunnelAndChute(p) ==
    << Body("funnel", LABEL_WALL, RatAdd(ChuteLeft(p), Rat(-40 + 8, 1)), Rat(TOP + 20, 1)),
       Body("funnel", LABEL_WALL, RatAdd(ChuteRight(p), Rat(40 - 8, 1)), Rat(TOP + 20, 1)),
       Body("chute", LABEL_WALL, RatSub(ChuteLeft(p), Rat(WALL, 2)),
            Rat(TOP * 2 - CHUTE_HEIGHT, 2)),
       Body("chute", LABEL_WALL, RatAdd(ChuteRight(p), Rat(WALL, 2)),
            Rat(TOP * 2 - CHUTE_HEIGHT, 2)) >>

GateAndSensor ==
    << Body("gate", LABEL_GATE, Rat(CANVAS_WIDTH, 2), Rat(TOP, 1)),
       Body("sensor", LABEL_SENSOR, Rat(CANVAS_WIDTH, 2), Rat(-CHUTE_HEIGHT + 5, 1)) >>

Min(a, b) == IF a < b THEN a ELSE b

\* ball i of the loop over i = 0 .. numBalls - 1; its two Math.random calls
\* are numbers 2i + 1 and 2i + 2 of the stream
BallBody(p, i, stream) ==
    LET cols == Min(p.numBalls, 7)
        col == i % cols
        row == i \div cols
        half == Rat(1, 2)
        y == RatAdd(Rat(CY * 10 + RY * 4 - row * (p.ballRadius * 2 + 6) * 10, 10),
                    RatMul(RatSub(RandomAt(stream, 2 * i + 1), half), Rat(8, 1)))
        normY == RatDiv(RatSub(y, Rat(CY, 1)), Rat(RY, 1))
        inside == RatMax(Rat(0, 1), RatSub(Rat(1, 1), RatSquare(normY)))
        wide == RatSub(RatMul(Rat(RX, 1), MathSqrt(inside)), Rat(p.ballRadius + WALL, 1))
        halfW == IF RatLess(wide, Rat(p.ballRadius, 1)) THEN Rat(p.ballRadius, 1) ELSE wide
        spacingX == RatDiv(RatMul(halfW, Rat(2, 1)), Rat(cols + 1, 1))
        x == RatAdd(RatAdd(RatSub(Rat(CX, 1), halfW), RatMul(spacingX, Rat(col + 1, 1))),
                    RatMul(RatSub(RandomAt(stream, 2 * i + 2), half), Rat(10, 1)))
    IN  Body("ball", BallLabel(i), x, y)

\* the loop with its bound off by one: i <= numBalls
BallBodiesOffByOne(p, stream) == [ k \in 1..(p.numBalls + 1) |-> BallBody(p, k - 1, stream) ]

\* the balls array
BallBodies(p, stream) == [ k \in 1..p.numBalls |-> BallBody(p, k - 1, stream) ]

\* engine.world after the four World.add calls
WorldBodies(p, stream) ==
    OvalBodies(p, 0) \o FunnelAndChute(p) \o GateAndSensor \o BallBodies(p, stream)

\* Params of the two constructions
GeoRadii == { 18, 37 }

GeoParams ==
    { [ DEFAULT_PARAMS EXCEPT !.numBalls = n, !.ballRadius = r ] :
        n \in { MaxBalls, 8 }, r \in GeoRadii }

GeoStart(params) == [ pc |-> "build", p |-> Merge(DEFAULT_PARAMS, params), worlds |-> << >> ]

\* one construction, its random numbers being those of `stream`
GeoBuildOf(g, stream) ==
    IF g.pc = "build"
    THEN { [ g EXCEPT !.worlds = Append(@, WorldBodies(g.p, stream)),
                      !.pc = IF Len(g.worlds) = 1 THEN "built" ELSE "build" ] }
    ELSE {}

ExceptGeo == << sim, ev, mg, iso, opt, gen, wind, jet, link, app, lm >>

InitGeo ==
    /\ geo \in { GeoStart(params) : params \in GeoParams }
    /\ sim = IdleSim /\ ev = IdleEval
    /\ mg = Idle /\ iso = Idle /\ opt = Idle /\ gen = Idle
    /\ wind = Idle /\ jet = Idle /\ link = Idle /\ app = Idle /\ lm = Idle

GeoBuild ==
    (\E stream \in RandomStreams : geo' \in GeoBuildOf(geo, stream)) /\ UNCHANGED ExceptGeo

NextGeo == GeoBuild

SpecGeo == InitGeo /\ [][NextGeo]_vars

\* a layout without its positions
StructureOf(w) == [ k \in 1..Len(w) |-> << w[k].part, w[k].label >> ]

\* the number of bodies of w made by the statement `part`
CountPart(w, part) == Cardinality({ k \in 1..Len(w) : w[k].part = part })

\* C23: the two constructions for the same Params have the same structure
\* (the same bodies, made by the same statements, with the same labels, in
\* the same order): the same number of oval segments, at most 48, namely
\* those whose midpoint does not lie in the chute gap, two funnel segments,
\* two chute walls, one gate, one sensor, and numBalls balls labelled
\* ball-0 .. ball-(numBalls-1) in this order; only positions of balls differ.
C23_SameStructure ==
    geo.pc = "built" =>
        LET w1 == geo.worlds[1]
            w2 == geo.worlds[2]
            n == geo.p.numBalls
            ovals == Cardinality({ i \in 0..(OVAL_SEGMENTS - 1) : ~InChuteGap(geo.p, i) })
        IN  /\ StructureOf(w1) = StructureOf(w2)
            /\ \A w \in { w1, w2 } :
                  /\ CountPart(w, "oval") = ovals
                  /\ ovals <= OVAL_SEGMENTS
                  /\ CountPart(w, "funnel") = 2
                  /\ CountPart(w, "chute") = 2
                  /\ CountPart(w, "gate") = 1
                  /\ CountPart(w, "sensor") = 1
                  /\ CountPart(w, "ball") = n
                  /\ Len(w) = ovals + 6 + n
                  /\ \A i \in 0..(n - 1) :
                        /\ w[Len(w) - n + i + 1].part = "ball"
                        /\ w[Len(w) - n + i + 1].label = BallLabel(i)
            /\ \A k \in 1..Len(w1) :
                  w1[k] # w2[k] => w1[k].part = "ball"

\* C23 witness: two constructions for the default radius, four segments
\* omitted at the chute, whose balls lie at different positions
C23_Witness ==
    /\ geo.pc = "built"
    /\ geo.p.numBalls = 8
    /\ geo.p.ballRadius = 37
    /\ CountPart(geo.worlds[1], "oval") = 44
    /\ geo.worlds[1] # geo.worlds[2]
    /\ StructureOf(geo.worlds[1]) = StructureOf(geo.worlds[2])

(***************************************************************************)
(* SpecLink: the shareable link of App.tsx.  A JavaScript string is here   *)
(* the sequence of its UTF-16 code units (numbers); a JavaScript value is  *)
(* a record with its kind; a call returns [ok |-> TRUE, value |-> v] or,   *)
(* when it throws, [ok |-> FALSE, error |-> name].                         *)
(***************************************************************************)
\* rosters have 1 .. MaxRoster names
MaxRoster == 2

JsNull == [ kind |-> "null" ]
JsArray(seq) == [ kind |-> "array", value |-> seq ]
JsNumber(n) == [ kind |-> "number", value |-> n ]

Returned(v) == [ ok |-> TRUE, value |-> v ]
Thrown(name) == [ ok |-> FALSE, error |-> name ]

\* the characters of a string literal inside JSON text: `"` and `\` escaped
RECURSIVE JsonEscape(_)
JsonEscape(str) ==
    IF str = << >> THEN << >>
    ELSE (IF Head(str) \in { 34, 92 } THEN << 92, Head(str) >> ELSE << Head(str) >>)
            \o JsonEscape(Tail(str))

RECURSIVE JsonElements(_)
JsonElements(members) ==
    IF members = << >> THEN << >>
    ELSE << 34 >> \o JsonEscape(Head(members)) \o << 34 >>
            \o (IF Len(members) > 1 THEN << 44 >> ELSE << >>)
            \o JsonElements(Tail(members))

\* JSON.stringify(members) for an array of strings: ["a","b"]
JsonStringify(members) == << 91 >> \o JsonElements(members) \o << 93 >>

\* the base64 character of a 6-bit value: A-Z a-z 0-9 + /
Base64Char(v) ==
    IF v < 26 THEN 65 + v
    ELSE IF v < 52 THEN 97 + (v - 26)
    ELSE IF v < 62 THEN 48 + (v - 52)
    ELSE IF v = 62 THEN 43 ELSE 47

\* the 6-bit value of a base64 character, -1 for any other character
Base64Value(c) ==
    IF c >= 65 /\ c <= 90 THEN c - 65
    ELSE IF c >= 97 /\ c <= 122 THEN c - 97 + 26
    ELSE IF c >= 48 /\ c <= 57 THEN c - 48 + 52
    ELSE IF c = 43 THEN 62
    ELSE IF c = 47 THEN 63 ELSE -1

RECURSIVE Base64Encode(_)
Base64Encode(b) ==
    IF Len(b) = 0 THEN << >>
    ELSE IF Len(b) = 1
    THEN << Base64Char(b[1] \div 4), Base64Char((b[1] % 4) * 16), 61, 61 >>
    ELSE IF Len(b) = 2
    THEN << Base64Char(b[1] \div 4), Base64Char((b[1] % 4) * 16 + b[2] \div 16),
            Base64Char((b[2] % 16) * 4), 61 >>
    ELSE << Base64Char(b[1] \div 4), Base64Char((b[1] % 4) * 16 + b[2] \div 16),
            Base64Char((b[2] % 16) * 4 + b[3] \div 64), Base64Char(b[3] % 64) >>
            \o Base64Encode(SubSeq(b, 4, Len(b)))

\* btoa(str): throws when a character is outside Latin-1
Btoa(str) ==
    IF \E k \in 1..Len(str) : str[k] > 255
    THEN Thrown("InvalidCharacterError")
    ELSE Returned(Base64Encode(str))

RECURSIVE Base64Decode(_)
Base64Decode(v) ==
    IF Len(v) < 2 THEN << >>
    ELSE IF Len(v) = 2 THEN << v[1] * 4 + v[2] \div 16 >>
    ELSE IF Len(v) = 3
    THEN << v[1] * 4 + v[2] \div 16, (v[2] % 16) * 16 + v[3] \div 4 >>
    ELSE << v[1] * 4 + v[2] \div 16, (v[2] % 16) * 16 + v[3] \div 4,
            (v[3] % 4) * 64 + v[4] >>
            \o Base64Decode(SubSeq(v, 5, Len(v)))

\* atob(str) for str without white space: the padding is removed, then
\* a length of 1 modulo 4 or a character outside the alphabet throws
Atob(str) ==
    LET n == Len(str)
        data == IF n % 4 = 0 /\ n >= 2 /\ str[n] = 61 /\ str[n - 1] = 61
                THEN SubSeq(str, 1, n - 2)
                ELSE IF n % 4 = 0 /\ n >= 1 /\ str[n] = 61
                THEN SubSeq(str, 1, n - 1)
                ELSE str
    IN  IF Len(data) % 4 = 1 \/ \E k \in 1..Len(data) : Base64Value(data[k]) = -1
        THEN Thrown("InvalidCharacterError")
        ELSE Returned(Base64Decode([ k \in 1..Len(data) |-> Base64Value(data[k]) ]))

\* a string literal of JSON text read from position i (after its opening
\* quote): the string and the position after its closing quote; only the
\* escapes \" and \\ are read
RECURSIVE JsonParseString(_, _, _)
JsonParseString(text, i, acc) ==
    IF i > Len(text) \/ text[i] < 32 THEN Thrown("SyntaxError")
    ELSE IF text[i] = 34 THEN Returned([ str |-> acc, next |-> i + 1 ])
    ELSE IF text[i] = 92
    THEN IF i + 1 <= Len(text) /\ text[i + 1] \in { 34, 92 }
         THEN JsonParseString(text, i + 2, Append(acc, text[i + 1]))
         ELSE Thrown("SyntaxError")
    ELSE JsonParseString(text, i + 1, Append(acc, text[i]))

\* the elements of an array of strings read from position i
RECURSIVE JsonParseElements(_, _, _)
JsonParseElements(text, i, acc) ==
    IF i > Len(text) \/ text[i] # 34 THEN Thrown("SyntaxError")
    ELSE LET s == JsonParseString(text, i + 1, << >>)
         IN  IF ~s.ok THEN s
             ELSE LET n == s.value.next
                  IN  IF n = Len(text) /\ text[n] = 93
                      THEN Returned(JsArray(Append(acc, s.value.str)))
                      ELSE IF n < Len(text) /\ text[n] = 44
                      THEN JsonParseElements(text, n + 1, Append(acc, s.value.str))
                      ELSE Thrown("SyntaxError")

\* JSON.parse(text) for the texts of the model: an array of strings, or a
\* number written with digits; any other text is a syntax error
JsonParse(text) ==
    IF text # << >> /\ \A k \in 1..Len(text) : text[k] >= 48 /\ text[k] <= 57
    THEN Returned(JsNumber(text))
    ELSE IF Len(text) >= 2 /\ text[1] = 91
    THEN IF Len(text) = 2 /\ text[2] = 93 THEN Returned(JsArray(<< >>))
         ELSE JsonParseElements(text, 2, << >>)
    ELSE Thrown("SyntaxError")

\* '#team='
HashPrefix == << 35, 116, 101, 97, 109, 61 >>

\* function encodeTeam(members) (lines 74-76)
EncodeTeam(members) == Btoa(JsonStringify(members))

\* function decodeTeam(hash) (lines 78-86): whatever is thrown inside the
\* try is caught and null returned
DecodeTeam(hash) ==
    LET param == IF StartsWith(hash, HashPrefix)
                 THEN SubSeq(hash, Len(HashPrefix) + 1, Len(hash)) ELSE hash
    IN  IF param = << >> THEN JsNull
        ELSE IF ~Atob(param).ok THEN JsNull
        ELSE IF ~JsonParse(Atob(param).value).ok THEN JsNull
        ELSE JsonParse(Atob(param).value).value

\* names typed into the Edit Team modal: A, Al, Zo\"e, q", b\, \Lu
Latin1Names ==
    { << 65 >>, << 65, 108 >>, << 90, 111, 235 >>, << 113, 34 >>, << 98, 92 >> }

NameChoices == Latin1Names \cup { << 321, 117 >> }

\* the rosters of 1 .. MaxRoster distinct names
RostersOf(names) ==
    { m \in UNION { [ 1..n -> names ] : n \in 1..MaxRoster } :
        \A a, b \in 1..Len(m) : a # b => m[a] # m[b] }

Rosters == RostersOf(NameChoices)

\* hashes not made by Copy Link: none, '#team=', '#x', '#team=!!',
\* '#team=QQ==' (the text A), '#team=QUFBQ' (length 1 modulo 4),
\* '#team=MTI=' (the text 12)
OtherHashes ==
    { << >>, HashPrefix, << 35, 120 >>, HashPrefix \o << 33, 33 >>,
      HashPrefix \o << 81, 81, 61, 61 >>, HashPrefix \o << 81, 85, 70, 66, 81 >>,
      HashPrefix \o << 77, 84, 73, 61 >> }

NoValue == [ kind |-> "none" ]

\* the page with roster m, before Copy Link is clicked
LinkStart(m) == [ pc |-> "roster", m |-> m, hash |-> << >>, result |-> NoValue ]

\* a page about to be opened with a hash that Copy Link did not make
HashStart(hash) == [ pc |-> "hash", m |-> << >>, hash |-> hash, result |-> NoValue ]

\* the click handler of Copy Link (lines 161-164)
CopyLinkOf(l) ==
    IF l.pc = "roster"
    THEN LET e == EncodeTeam(l.m)
         IN  IF e.ok THEN { [ l EXCEPT !.pc = "copied", !.hash = HashPrefix \o e.value ] }
             ELSE { [ l EXCEPT !.pc = "threw" ] }
    ELSE {}

\* a page is opened with the hash: decodeTeam(window.location.hash)
OpenLinkOf(l) ==
    IF l.pc \in { "copied", "hash" }
    THEN { [ l EXCEPT !.pc = IF l.pc = "copied" THEN "opened" ELSE "openedHash",
                      !.result = DecodeTeam(l.hash) ] }
    ELSE {}

ExceptLink == << sim, ev, mg, iso, opt, gen, wind, jet, geo, app, lm >>

InitLink ==
    /\ link \in { LinkStart(m) : m \in Rosters } \cup { HashStart(h) : h \in OtherHashes }
    /\ sim = IdleSim /\ ev = IdleEval
    /\ mg = Idle /\ iso = Idle /\ opt = Idle /\ gen = Idle
    /\ wind = Idle /\ jet = Idle /\ geo = Idle /\ app = Idle /\ lm = Idle

CopyLink == link' \in CopyLinkOf(link) /\ UNCHANGED ExceptLink

OpenLink == link' \in OpenLinkOf(link) /\ UNCHANGED ExceptLink

NextLink ==
    \/ CopyLink
    \/ OpenLink

SpecLink == InitLink /\ [][NextLink]_vars

\* the text a hash carries cannot be decoded
Undecodable(hash) ==
    LET param == IF StartsWith(hash, HashPrefix)
                 THEN SubSeq(hash, Len(HashPrefix) + 1, Len(hash)) ELSE hash
    IN  \/ param = << >>
        \/ ~Atob(param).ok
        \/ ~JsonParse(Atob(param).value).ok

\* C24: for every roster m that can be saved, Copy Link makes a link, and
\* the page opened with it loads a roster equal to m (same names, same
\* order); a hash that cannot be decoded yields null.
C24_LinkRoundTrip ==
    /\ link.pc # "threw"
    /\ link.pc = "opened" => link.result = JsArray(link.m)
    /\ link.pc = "openedHash" /\ Undecodable(link.hash) => link.result = JsNull

(***************************************************************************)
(* SpecApp: the App component (App.tsx lines 88-182) with its Edit Team    *)
(* modal (EditTeamModal.tsx).  One action is one event handler or timer    *)
(* callback, followed by React's render of the state it set.               *)
(*   members, displayName, drawState, winner, showConfetti, showEditModal  *)
(*                the state hooks of App                                   *)
(*   draft        the draft of the modal (meaningful while it is shown)    *)
(*   storage      localStorage 'teamMembers';  hash: window.location.hash  *)
(*   timers       the pending setTimeout(flick) calls, each with what its  *)
(*                closure holds: members, flicks, totalFlicks; callbacks   *)
(*                counts the timer callbacks its draw has run so far       *)
(*   event        the handler that ran last                                *)
(*   lastSave     the argument of the last handleSaveMembers call, and     *)
(*                whether the call returned                                *)
(* The delays of the timers are not modelled: pending timers of different  *)
(* draws fire in any order.                                                *)
(***************************************************************************)
\* totalFlicks = MinFlicks + Math.floor(Math.random() * FlickSpread); the
\* source has 20 and 15
MinFlicks == 2
FlickSpread == 2
\* at most MaxTimers timers are pending
MaxTimers == 1

JsString(text) == [ kind |-> "string", value |-> text ]

\* 'Press Draw!'
PressDraw == << 80, 114, 101, 115, 115, 32, 68, 114, 97, 119, 33 >>

\* Math.floor(r * n) for a random number r
FloorTimes(r, n) == (r[1] * n) \div r[2]

\* str.trim(), the white space being the space character
RECURSIVE Trim(_)
Trim(str) ==
    IF str = << >> THEN str
    ELSE IF Head(str) = 32 THEN Trim(Tail(str))
    ELSE IF str[Len(str)] = 32 THEN Trim(SubSeq(str, 1, Len(str) - 1))
    ELSE str

\* draft.includes(name)
Includes(draft, name) == \E k \in 1..Len(draft) : draft[k] = name

\* draft.filter((_, i) => i !== index)
RemoveAt(draft, index) ==
    [ k \in 1..(Len(draft) - 1) |-> IF k <= index THEN draft[k] ELSE draft[k + 1] ]

\* names of the model: A, B, \Lu;  texts typed into the modal's input
AppNames == { << 65 >>, << 66 >>, << 321, 117 >> }

TypedNames == AppNames \cup { << 32 >>, << 32, 65, 32 >> }

\* teamData.members, the roster of team.json
TeamDataMembers == << << 65 >>, << 66 >> >>

NoSave == [ called |-> FALSE ]

\* the useState initializers of App (lines 89-100)
AppLoad(storage, hash, lastSave) ==
    LET fromHash == DecodeTeam(hash)
        members == IF fromHash.kind = "array" THEN fromHash.value
                   ELSE IF storage.kind = "string" /\ storage.value # << >>
                   THEN JsonParse(storage.value).value.value
                   ELSE TeamDataMembers
    IN  [ pc |-> "mounted", members |-> members, displayName |-> PressDraw,
          drawState |-> "idle", winner |-> Null, showConfetti |-> FALSE,
          showEditModal |-> FALSE, draft |-> << >>,
          storage |-> storage, hash |-> hash, timers |-> << >>,
          event |-> "load", lastSave |-> lastSave ]

\* what the browser holds when the page is first opened: nothing; a saved
\* team; a saved team and a link to another; a link to an empty roster
InitialStores ==
    { << JsNull, << >> >>,
      << JsString(JsonStringify(<< << 66 >>, << 65 >> >>)), << >> >>,
      << JsString(JsonStringify(<< << 66 >>, << 65 >> >>)),
         HashPrefix \o EncodeTeam(<< << 66 >> >>).value >>,
      << JsNull, HashPrefix \o EncodeTeam(<< >>).value >> }

\* the test of flick with the count off by one: flicks <= totalFlicks
FlickContinuesOffByOne(c) == c.flicks <= c.totalFlicks

\* if (flicks < totalFlicks)
FlickContinues(c) == c.flicks < c.totalFlicks

\* function flick() (lines 113-128), run with closure c (flicks already
\* incremented) and the random numbers r1, r2; `rest` are the other timers
Flick(a, c, rest, r1, r2) ==
    LET rand == c.members[FloorTimes(r1, Len(c.members)) + 1]
        picked == c.members[FloorTimes(r2, Len(c.members)) + 1]
    IN  IF FlickContinues(c)
        THEN [ a EXCEPT !.displayName = rand, !.timers = Append(rest, c) ]
        ELSE [ a EXCEPT !.displayName = picked, !.winner = picked,
                        !.drawState = "winner", !.showConfetti = TRUE,
                        !.timers = rest ]

\* the click handler of Draw (lines 102-131); the button is disabled while
\* drawState is 'spinning' (line 149)
DrawClickOf(a) ==
    IF a.pc = "mounted" /\ a.drawState # "spinning" /\ Len(a.timers) < MaxTimers
    THEN IF a.drawState = "spinning" \/ Len(a.members) = 0
         THEN { [ a EXCEPT !.event = "draw" ] }
         ELSE { Flick([ a EXCEPT !.event = "draw", !.drawState = "spinning",
                                 !.winner = Null, !.showConfetti = FALSE ],
                      [ members |-> a.members, flicks |-> 1,
                        totalFlicks |-> MinFlicks + FloorTimes(r0, FlickSpread),
                        callbacks |-> 0 ],
                      a.timers, r1, r2) :
                  r0 \in RandomChoices, r1 \in RandomChoices, r2 \in RandomChoices }
    ELSE {}

\* the k-th pending timer fires: flick() runs again
FlickTimerOf(a, k) ==
    IF a.pc = "mounted" /\ k \in 1..Len(a.timers)
    THEN { Flick([ a EXCEPT !.event = "flick" ],
                 [ a.timers[k] EXCEPT !.flicks = @ + 1, !.callbacks = @ + 1 ],
                 RemoveAt(a.timers, k - 1), r1, r2) :
             r1 \in RandomChoices, r2 \in RandomChoices }
    ELSE {}

\* the click handler of Edit Team (lines 151-157); the modal mounts with
\* draft = [...members]
OpenEditModalOf(a) ==
    IF a.pc = "mounted" /\ a.drawState # "spinning"
    THEN { IF a.showEditModal THEN [ a EXCEPT !.event = "edit" ]
           ELSE [ a EXCEPT !.event = "edit", !.showEditModal = TRUE,
                           !.draft = a.members ] }
    ELSE {}

\* addMember (EditTeamModal.tsx lines 13-19) with newName typed
AddMemberOf(a, newName) ==
    IF a.pc = "mounted" /\ a.showEditModal /\ Len(a.draft) < MaxRoster
    THEN LET trimmed == Trim(newName)
         IN  { IF trimmed # << >> /\ ~Includes(a.draft, trimmed)
               THEN [ a EXCEPT !.event = "add", !.draft = Append(@, trimmed) ]
               ELSE [ a EXCEPT !.event = "add" ] }
    ELSE {}

\* removeMember(index) (EditTeamModal.tsx lines 21-23)
RemoveMemberOf(a, index) ==
    IF a.pc = "mounted" /\ a.showEditModal /\ index \in 0..(Len(a.draft) - 1)
    THEN { [ a EXCEPT !.event = "remove", !.draft = RemoveAt(@, index) ] }
    ELSE {}

\* onClose: Cancel, or a click on the overlay
CloseModalOf(a) ==
    IF a.pc = "mounted" /\ a.showEditModal
    THEN { [ a EXCEPT !.event = "close", !.showEditModal = FALSE, !.draft = << >> ] }
    ELSE {}

\* handleSaveMembers(updated) (lines 133-141): when encodeTeam throws, the
\* statements after it do not run
HandleSaveMembers(a, updated) ==
    LET e == EncodeTeam(updated)
        stored == [ a EXCEPT !.event = "save",
                             !.storage = JsString(JsonStringify(updated)) ]
    IN  IF e.ok
        THEN [ stored EXCEPT !.hash = HashPrefix \o e.value,
                             !.members = updated,
                             !.showEditModal = FALSE, !.draft = << >>,
                             !.winner = Null, !.drawState = "idle",
                             !.displayName = PressDraw,
                             !.lastSave = [ called |-> TRUE, updated |-> updated,
                                            returned |-> TRUE ] ]
        ELSE [ stored EXCEPT !.lastSave = [ called |-> TRUE, updated |-> updated,
                                            returned |-> FALSE ] ]

\* the click handler of Save: onSave(draft); the button is disabled while
\* the draft is empty
SaveClickOf(a) ==
    IF a.pc = "mounted" /\ a.showEditModal /\ Len(a.draft) # 0
    THEN { HandleSaveMembers(a, a.draft) }
    ELSE {}

\* Confetti's onDone
ConfettiDoneOf(a) ==
    IF a.pc = "mounted" /\ a.showConfetti
    THEN { [ a EXCEPT !.event = "confetti", !.showConfetti = FALSE ] }
    ELSE {}

\* the page is loaded again: the pending timers are gone with the old page
ReloadOf(a) ==
    IF a.pc = "mounted"
    THEN { [ AppLoad(a.storage, a.hash, a.lastSave) EXCEPT !.event = "reload" ] }
    ELSE {}

ExceptApp == << sim, ev, mg, iso, opt, gen, wind, jet, geo, link, lm >>

InitApp ==
    /\ app \in { AppLoad(s[1], s[2], NoSave) : s \in InitialStores }
    /\ sim = IdleSim /\ ev = IdleEval
    /\ mg = Idle /\ iso = Idle /\ opt = Idle /\ gen = Idle
    /\ wind = Idle /\ jet = Idle /\ geo = Idle /\ link = Idle /\ lm = Idle

DrawClick == app' \in DrawClickOf(app) /\ UNCHANGED ExceptApp

FlickTimer == (\E k \in 1..MaxTimers : app' \in FlickTimerOf(app, k)) /\ UNCHANGED ExceptApp

OpenEditModal == app' \in OpenEditModalOf(app) /\ UNCHANGED ExceptApp

AddMember ==
    (\E newName \in TypedNames : app' \in AddMemberOf(app, newName)) /\ UNCHANGED ExceptApp

RemoveMember ==
    (\E index \in 0..(MaxRoster - 1) : app' \in RemoveMemberOf(app, index))
        /\ UNCHANGED ExceptApp

CloseModal == app' \in CloseModalOf(app) /\ UNCHANGED ExceptApp

SaveClick == app' \in SaveClickOf(app) /\ UNCHANGED ExceptApp

ConfettiDone == app' \in ConfettiDoneOf(app) /\ UNCHANGED ExceptApp

Reload == app' \in ReloadOf(app) /\ UNCHANGED ExceptApp

NextApp ==
    \/ DrawClick
    \/ FlickTimer
    \/ OpenEditModal
    \/ AddMember
    \/ RemoveMember
    \/ CloseModal
    \/ SaveClick
    \/ ConfettiDone
    \/ Reload

SpecApp == InitApp /\ [][NextApp]_vars

(***************************************************************************)
(* Claims about App.                                                       *)
(***************************************************************************)
\* this step arms the timer of a new draw
DrawStarted == Len(app'.timers) = Len(app.timers) + 1

\* this step is the timer callback that ends the draw of timer k
DrawEnded(k) ==
    /\ app'.event = "flick"
    /\ k \in 1..Len(app.timers)
    /\ Len(app'.timers) = Len(app.timers) - 1
    /\ app'.timers = RemoveAt(app.timers, k - 1)

\* this step is a timer callback of timer k that arms the timer again
DrawContinued(k) ==
    /\ app'.event = "flick"
    /\ k \in 1..Len(app.timers)
    /\ app'.timers = Append(RemoveAt(app.timers, k - 1),
                            [ app.timers[k] EXCEPT !.flicks = @ + 1, !.callbacks = @ + 1 ])

\* what a step is according to the claim, a draw ending with its lo-th to
\* hi-th timer callback
DrawStep(lo, hi) ==
    /\ (app.drawState = "spinning" \/ Len(app.members) = 0)
          => /\ ~DrawStarted
             /\ app'.event = "draw" => app' = [ app EXCEPT !.event = "draw" ]
    /\ (app'.event = "draw" /\ app.drawState # "spinning" /\ Len(app.members) # 0)
          => /\ DrawStarted
             /\ app'.drawState = "spinning"
             /\ app'.winner = Null
             /\ LET c == app'.timers[Len(app'.timers)]
                IN  /\ c.callbacks = 0
                    /\ c.flicks = 1
                    /\ c.members = app.members
    /\ app'.event = "flick"
          => \E k \in 1..Len(app.timers) :
                \/ DrawContinued(k)
                \/ /\ DrawEnded(k)
                   /\ app.timers[k].callbacks + 1 \in lo..hi
                   /\ app'.drawState = "winner"
                   /\ app'.winner # Null
                   /\ Includes(app.timers[k].members, app'.winner)
                   /\ app'.displayName = app'.winner

\* every pending draw has run fewer than hi timer callbacks
CallbacksBelow(hi) == \A k \in 1..Len(app.timers) : app.timers[k].callbacks < hi

C26_SaveConsistent ==
    app.lastSave.called =>
        /\ app.lastSave.returned
        /\ app.storage = JsString(JsonStringify(app.lastSave.updated))
        /\ DecodeTeam(app.hash) = JsArray(app.lastSave.updated)
        /\ app.event = "save"
              => /\ app.members = app.lastSave.updated
                 /\ app.drawState = "idle"
                 /\ app.winner = Null
        /\ app.event = "reload" => app.members = app.lastSave.updated

\* C28: winner is null or a name of the current roster, and drawState =
\* 'winner' implies that winner is a name of the current roster.
C28_WinnerInRoster ==
    /\ app.winner = Null \/ Includes(app.members, app.winner)
    /\ app.drawState = "winner" => app.winner # Null /\ Includes(app.members, app.winner)

(***************************************************************************)
(* The tally of evaluateConfig.                                            *)
(***************************************************************************)
\* this step is one loop iteration whose draw had a winner
WonRun == ev'.i = ev.i + 1 /\ ev'.result.winnerIndex >= 0

\* winCounts' is winCounts with the entry of index idx (0-based) one higher
OneMoreWin(idx) ==
    /\ Len(ev'.winCounts) = Len(ev.winCounts)
    /\ idx + 1 \in 1..Len(ev.winCounts)
    /\ \A k \in 1..Len(ev.winCounts) :
          ev'.winCounts[k] = ev.winCounts[k] + (IF k = idx + 1 THEN 1 ELSE 0)

\* C27: the tally starts at zero; every loop iteration whose draw returned
\* winnerIndex >= 0 adds one to successfulRuns and one to exactly the
\* winner's entry of winCounts, and every other iteration leaves both
\* unchanged, so successfulRuns is the number of draws with a winner; at
\* every point of the loop and after all N draws the sum of winCounts equals
\* successfulRuns, and the returned successRate times N equals it.
C27_TallyExact ==
    /\ [](ev.pc = "loop" /\ ev.i = 0
             => ev.successfulRuns = 0 /\ SumSeq(ev.winCounts) = 0)
    /\ [][ ev'.i = ev.i + 1
             => IF ev'.result.winnerIndex >= 0
                THEN /\ ev'.successfulRuns = ev.successfulRuns + 1
                     /\ OneMoreWin(ev'.result.winnerIndex)
                ELSE /\ ev'.successfulRuns = ev.successfulRuns
                     /\ ev'.winCounts = ev.winCounts ]_vars
    /\ [](ev.pc \in { "loop", "done" }
             => SumSeq(ev.winCounts) = ev.successfulRuns)
    /\ [](ev.pc = "done"
             => /\ ev.i = ev.numRuns
                /\ SumSeq(ev.evaluation.winCounts) = ev.successfulRuns
                /\ ev.evaluation.successRate[2] > 0
                /\ ev.evaluation.successRate[1] * ev.numRuns
                      = ev.successfulRuns * ev.evaluation.successRate[2])

\* C27 witness: an evaluation of two draws has returned, both won by the
\* first of two balls
C27_Witness ==
    /\ ev.pc = "done"
    /\ ev.numRuns = 2
    /\ ev.successfulRuns = 2
    /\ ev.evaluation.winCounts = << 2, 0 >>
    /\ ev.result.winnerIndex = 0

(***************************************************************************)
(* SpecLm: the component LotteryMachine (LotteryBall.tsx lines 375-766),   *)
(* its props changed by the parent, its timers and the engine's collision  *)
(* events.                                                                 *)
(*   members, drawRequested: the props;  gateInWorld: gateRef.current is   *)
(*   a body of the world;  gateOpen, airBlowing, winnerFound, winner: the  *)
(*   refs of that name (winner is << >> for null, << label >> otherwise);  *)
(*   staticBalls: the labels of the balls with isStatic;  gateTimers,      *)
(*   doneTimers: the pending setTimeout callbacks, oldest first;           *)
(*   history: draw, the number of performDraw calls; round, the number of  *)
(*   performDraw calls and roster changes; found, the rounds in which      *)
(*   winnerFound was set; calls, the onDrawComplete calls made; event and  *)
(*   by, the last step and the draw whose timer it ran                     *)
(***************************************************************************)
\* at most MaxDraws performDraw calls, MaxRosterChanges changes of members
MaxDraws == 2
MaxRosterChanges == 1
\* a collisionStart event has 1 .. MaxEventPairs pairs
MaxEventPairs == 2

LmNames == { "A", "B" }

\* the rosters the parent passes: no name twice
LmRosters ==
    { m \in UNION { [ 1..n -> LmNames ] : n \in 0..Cardinality(LmNames) } :
        \A i, j \in 1..Len(m) : i # j => m[i] # m[j] }

\* the label Matter gives a rectangle created without one (the walls)
WallLabel == "Rectangle Body"

\* the state after the mount effects (lines 394-520, 523-550): the gate is
\* created closed, the balls of `members` are added
LmMount(members) ==
    [ pc |-> "mounted", members |-> members, drawRequested |-> FALSE,
      gateInWorld |-> TRUE, gateOpen |-> FALSE, airBlowing |-> FALSE,
      winnerFound |-> FALSE, winner |-> << >>, staticBalls |-> {},
      gateTimers |-> << >>, doneTimers |-> << >>,
      draw |-> 0, round |-> 0, changes |-> 0, found |-> << >>, calls |-> << >>,
      event |-> "mount", by |-> 0 ]

\* performDraw (lines 691-740): returns when there are no balls; otherwise
\* resets the winner, un-freezes the static balls, replaces the gate by a
\* new one, starts the air and arms the gate timer (4400 ms)
PerformDraw(m) ==
    IF Len(m.members) = 0 THEN m
    ELSE [ m EXCEPT !.winner = << >>, !.winnerFound = FALSE,
                    !.staticBalls = {},
                    !.gateInWorld = TRUE, !.gateOpen = FALSE,
                    !.airBlowing = TRUE,
                    !.gateTimers = Append(@, m.draw + 1),
                    !.draw = @ + 1, !.round = @ + 1,
                    !.event = "performDraw" ]

\* the parent sets drawRequested: the effect of lines 743-747 runs
\* performDraw
RequestDrawOf(m) ==
    IF m.pc = "mounted" /\ ~m.drawRequested /\ m.draw < MaxDraws
    THEN { PerformDraw([ m EXCEPT !.drawRequested = TRUE, !.event = "request" ]) }
    ELSE {}

\* the parent clears drawRequested: the effect runs and does nothing
ClearRequestOf(m) ==
    IF m.pc = "mounted" /\ m.drawRequested
    THEN { [ m EXCEPT !.drawRequested = FALSE, !.event = "clear" ] }
    ELSE {}

\* the parent renders with a new onDrawStart while drawRequested is set:
\* performDraw is a new callback (line 740) and the effect runs it again
NewOnDrawStartOf(m) ==
    IF m.pc = "mounted" /\ m.drawRequested /\ m.draw < MaxDraws
    THEN { PerformDraw([ m EXCEPT !.event = "rerender" ]) }
    ELSE {}

\* the callback of the gate timer (lines 729-739), armed by draw m.gateTimers[1]
GateTimerOf(m) ==
    IF m.pc \in { "mounted", "unmounted" } /\ m.gateTimers # << >>
    THEN LET d == Head(m.gateTimers)
             t == [ m EXCEPT !.gateTimers = Tail(@), !.event = "gateTimer",
                             !.by = d ]
         IN  { IF m.winnerFound THEN t
               ELSE [ t EXCEPT !.gateInWorld = FALSE, !.gateOpen = TRUE ] }
    ELSE {}

\* a pair of a collisionStart event, by the labels of its two bodies
Pair(a, b) == [ bodyA |-> a, bodyB |-> b ]

\* the bodies a moving ball can start to touch: another ball, a wall, the
\* gate while it is in the world, the sensor beyond the gate once it is not
TouchedBy(m, ball) ==
    ({ m.members[i] : i \in 1..Len(m.members) } \ { ball })
        \cup { WallLabel }
        \cup (IF m.gateInWorld THEN { "gate" } ELSE { "exit-sensor" })

EventPairsOf(m) ==
    LET moving == { m.members[i] : i \in 1..Len(m.members) } \ m.staticBalls
    IN  UNION { UNION { { Pair(ball, other), Pair(other, ball) } :
                          other \in TouchedBy(m, ball) } : ball \in moving }

\* the events the engine can report: 1 .. MaxEventPairs pairs
EventsOf(m) == UNION { [ 1..n -> EventPairsOf(m) ] : n \in 1..MaxEventPairs }

\* the loop over event.pairs (lines 476-509): the label of the first body
\* paired with the exit sensor that is not the gate or a sensor, << >> if none
RECURSIVE FirstEscaped(_)
FirstEscaped(pairs) ==
    IF pairs = << >> THEN << >>
    ELSE LET pair == Head(pairs)
             ballLabel == IF pair.bodyA = "exit-sensor" THEN << pair.bodyB >>
                          ELSE IF pair.bodyB = "exit-sensor" THEN << pair.bodyA >>
                          ELSE << >>
         IN  IF ballLabel = << >> \/ ballLabel[1] \in { "", "gate", "exit-sensor" }
             THEN FirstEscaped(Tail(pairs))
             ELSE ballLabel

\* what the handler does for the escaped ball (lines 484-507): the refs, the
\* ball frozen, the onDrawComplete timer (1600 ms) armed
DeclareWinner(m, label) ==
    [ m EXCEPT !.winnerFound = TRUE, !.winner = << label >>,
               !.airBlowing = FALSE, !.staticBalls = @ \cup { label },
               !.doneTimers = Append(@, [ label |-> label, round |-> m.round ]),
               !.found = Append(@, m.round) ]

\* the handler without `if (winnerFoundRef.current) return`
CollisionStartHandlerUnguarded(m, pairs) ==
    LET c == [ m EXCEPT !.event = "collisionStart" ]
    IN  IF FirstEscaped(pairs) = << >> THEN c
        ELSE DeclareWinner(c, FirstEscaped(pairs)[1])

\* the collisionStart handler (lines 473-510)
CollisionStartHandler(m, pairs) ==
    LET c == [ m EXCEPT !.event = "collisionStart" ]
    IN  IF m.winnerFound THEN c
        ELSE IF FirstEscaped(pairs) = << >> THEN c
        ELSE DeclareWinner(c, FirstEscaped(pairs)[1])

\* the engine reports a collisionStart event while the runner runs
CollisionEventOf(m) ==
    IF m.pc = "mounted"
    THEN { CollisionStartHandler(m, pairs) : pairs \in EventsOf(m) }
    ELSE {}

\* the callback of the onDrawComplete timer (lines 504-506)
DoneTimerOf(m) ==
    IF m.pc \in { "mounted", "unmounted" } /\ m.doneTimers # << >>
    THEN { [ m EXCEPT !.doneTimers = Tail(@), !.event = "doneTimer",
                      !.calls = Append(@, Head(m.doneTimers)) ] }
    ELSE {}

\* the parent passes another roster: the effect of lines 523-550 replaces the
\* balls, resets the refs and replaces the gate if gateRef.current is set
MembersChangeOf(m, members) ==
    IF m.pc = "mounted" /\ members # m.members /\ m.changes < MaxRosterChanges
    THEN { [ m EXCEPT !.members = members, !.staticBalls = {},
                      !.winner = << >>, !.winnerFound = FALSE,
                      !.airBlowing = FALSE, !.gateOpen = FALSE,
                      !.round = @ + 1, !.changes = @ + 1,
                      !.event = "members" ] }
    ELSE {}

\* the gate timers without the one of draw d
RECURSIVE WithoutTimer(_, _)
WithoutTimer(timers, d) ==
    IF timers = << >> THEN << >>
    ELSE IF Head(timers) = d THEN WithoutTimer(Tail(timers), d)
    ELSE << Head(timers) >> \o WithoutTimer(Tail(timers), d)

\* the component is unmounted: the cleanups of lines 512-518 and 750-754 stop
\* the runner, clear the world and clear the timer drawTimerRef.current holds
UnmountOf(m) ==
    IF m.pc = "mounted"
    THEN { [ m EXCEPT !.pc = "unmounted", !.gateInWorld = FALSE,
                      !.gateTimers = WithoutTimer(@, m.draw),
                      !.event = "unmount" ] }
    ELSE {}

ExceptLm == << sim, ev, mg, iso, opt, gen, wind, jet, geo, link, app >>

InitLm ==
    /\ lm \in { LmMount(members) : members \in LmRosters }
    /\ sim = IdleSim /\ ev = IdleEval
    /\ mg = Idle /\ iso = Idle /\ opt = Idle /\ gen = Idle
    /\ wind = Idle /\ jet = Idle /\ geo = Idle /\ link = Idle /\ app = Idle

RequestDraw == lm' \in RequestDrawOf(lm) /\ UNCHANGED ExceptLm

ClearRequest == lm' \in ClearRequestOf(lm) /\ UNCHANGED ExceptLm

NewOnDrawStart == lm' \in NewOnDrawStartOf(lm) /\ UNCHANGED ExceptLm

GateTimer == lm' \in GateTimerOf(lm) /\ UNCHANGED ExceptLm

CollisionEvent == lm' \in CollisionEventOf(lm) /\ UNCHANGED ExceptLm

DoneTimer == lm' \in DoneTimerOf(lm) /\ UNCHANGED ExceptLm

MembersChange ==
    (\E members \in LmRosters : lm' \in MembersChangeOf(lm, members))
        /\ UNCHANGED ExceptLm

Unmount == lm' \in UnmountOf(lm) /\ UNCHANGED ExceptLm

NextLm ==
    \/ RequestDraw
    \/ ClearRequest
    \/ NewOnDrawStart
    \/ GateTimer
    \/ CollisionEvent
    \/ DoneTimer
    \/ MembersChange
    \/ Unmount

SpecLm == InitLm /\ [][NextLm]_vars

\* this step is a performDraw call that found balls
PerformDrawStep == lm'.draw = lm.draw + 1

\* this step takes the gate out of the world of the mounted component
GateRemovedStep == lm.gateInWorld /\ ~lm'.gateInWorld /\ lm'.pc = "mounted"

\* C29: every performDraw leaves the gate closed (in the world, gateOpen
\* false), and the gate is taken out of the world only by a gate timer
\* callback, only by the timer that the most recent performDraw armed, never
\* by the timer of an earlier performDraw, and never when a winner has
\* already been found.
C29_GateClosedWhileMixing ==
    /\ [][PerformDrawStep => lm'.gateInWorld /\ ~lm'.gateOpen]_vars
    /\ [][GateRemovedStep
            => /\ lm'.event = "gateTimer"
               /\ lm'.by = lm.draw
               /\ ~lm.winnerFound]_vars

\* the number of entries of q equal to x
RECURSIVE CountOf(_, _)
CountOf(q, x) ==
    IF q = << >> THEN 0
    ELSE (IF Head(q) = x THEN 1 ELSE 0) + CountOf(Tail(q), x)

\* the onDrawComplete calls made and pending
CompletionsOf(m) == m.calls \o m.doneTimers

====
